---------------------------- MODULE Spec2Model ----------------------------
(***************************************************************************)
(* A model of the publications analyzer:                                   *)
(*   - looks_garbled / nonws_len        (scripts/pdf_analyzer.py)          *)
(*   - extract_pdf, the per-page loop   (scripts/pdf_analyzer.py)          *)
(*   - main, the loop over the PDFs     (scripts/pdf_analyzer.py)          *)
(*   - postprocess_chunks and its passes (scripts/pdf_processor.py)        *)
(*   - extract_tables, build_chunks, __main__ (scripts/pdf_processor.py)   *)
(*                                                                         *)
(* A text is a sequence of characters; a character is a one-element name   *)
(* ("a", "3", "#", " ", "\n", and "U+0436" for the Cyrillic letter zhe,    *)
(* "U+2014" for the em dash of the page markers).                          *)
(***************************************************************************)
EXTENDS Integers, Sequences, FiniteSets, TLC

VARIABLES
    text,        \* looks_garbled: the argument
    verdict,     \* looks_garbled: the values returned so far (<<>> before the call)
    doc,         \* extract_pdf: the pages' native text, doc[p] = page.get_text()
    page_num,    \* extract_pdf: number of loop iterations completed
    text_parts,  \* extract_pdf: the list of page blocks
    ocr_used,    \* extract_pdf: the flag
    full_text,   \* extract_pdf: what is written to text.txt
    pc,          \* extract_pdf: "pages" | "done" | "raised" ("idle" elsewhere)
    error,       \* extract_pdf: the exception that left the function, if any
    ocr_log,     \* the recognition engine's calls, in order: [page, ok, out]
    page_images, \* extract_pdf: page_images[p] = the xrefs of page.get_images(), in order
    image_count, \* extract_pdf: the counter
    image_files, \* extract_pdf: the files written under out_dir/images
    img_log,     \* what became of each img_info, in order: [page, pos, xref, result, name]
    pictures,    \* the document's PictureItems, in iterate_items() order
    images_dir,  \* out_dir/images: the *_meta.json sidecars, [name, meta]
    fuzz,        \* whether rapidfuzz was imported (_fuzz is not None)
    built,       \* the chunks as build_chunks returned them
    chunks,      \* the in-memory chunk list postprocess_chunks works on
    stats,       \* the stats dict of each postprocess_chunks run, in order
    passes,      \* what each pass of each postprocess_chunks run returned, in order
    pc_post,     \* "chunks" once build_chunks has returned ("idle" elsewhere);
                 \* in a run of __main__ also the step reached, see NextMain
    tables,      \* the document's TableItems, in iterate_items() order
    doc_chunks,  \* what HybridChunker().chunk(doc) yields
    table_slugs, \* extract_tables: self_ref -> path relative to out_dir
    tables_dir,  \* out_dir/tables: the paths of the csv files written
    run_stats,   \* __main__: table_stats, picture_stats, chunk_stats once known
    writes,      \* the writes of document.json and chunks.json, in order
    printed,     \* the summaries print_summary has printed
    pdf_files,   \* pdf_analyzer main: the PDFs found, [path, pages, images], sorted
    file_idx,    \* pdf_analyzer main: the number of PDFs the loop has finished
    log_buffer,  \* what was written to log_fh and not flushed yet
    log_file,    \* the content of extraction_log.csv: the header, then the rows
    batch_pc,    \* pdf_analyzer main: "loop" | "extract" | "complete" | "exit"
    returns      \* how each extract_pdf call of main ended: "returned" | "raised"

clsVars == <<text, verdict>>
imVars  == <<page_images, image_count, image_files, img_log>>
exVars  == <<doc, page_num, text_parts, ocr_used, full_text, pc, error, ocr_log,
             page_images, image_count, image_files, img_log>>
ppVars  == <<pictures, images_dir, fuzz, built, chunks, stats, passes, pc_post>>
ppVars_but_pc == <<pictures, images_dir, fuzz, built, chunks, stats, passes>>
mainVars == <<tables, doc_chunks, table_slugs, tables_dir, run_stats, writes, printed>>
batchVars == <<pdf_files, file_idx, log_buffer, log_file, batch_pc, returns>>
vars    == <<text, verdict, doc, page_num, text_parts, ocr_used, full_text, pc,
             error, ocr_log, page_images, image_count, image_files, img_log,
             pictures, images_dir, fuzz, built, chunks, stats, passes, pc_post,
             tables, doc_chunks, table_slugs, tables_dir, run_stats, writes, printed,
             pdf_files, file_idx, log_buffer, log_file, batch_pc, returns>>

---------------------------------------------------------------------------
(* Characters and the str predicates the code uses *)

\* The ASCII characters the model writes, in code point order.
AsciiTable == <<"\n", " ", "#", "-", ".", "/",
                "0", "1", "2", "3", "4", "5", "6", "7", "8", "9", ":",
                "C", "F", "H", "I", "J", "O", "P", "R", "T", "[", "]", "_",
                "a", "b", "c", "d", "e", "f", "g", "i", "j", "l", "m", "n", "o", "p",
                "q", "r", "s", "t", "u", "v", "y">>
LatinLetters == {"C", "F", "H", "I", "J", "O", "P", "R", "T",
                 "a", "b", "c", "d", "e", "f", "g", "i", "j", "l", "m", "n", "o", "p",
                 "q", "r", "s", "t", "u", "v", "y"}
NonAsciiLetters == {"U+0436"}
DigitChars == <<"0", "1", "2", "3", "4", "5", "6", "7", "8", "9">>
Whitespace == {" ", "\n"}

isspace(c) == c \in Whitespace
isalpha(c) == c \in LatinLetters \cup NonAsciiLetters
isdigit(c) == \E d \in 1..10 : DigitChars[d] = c
\* ord(c) > 127
non_ascii(c) == c \in NonAsciiLetters \cup {"U+2014"}

\* u repeated n times (Python's u * n)
Repeat(u, n) ==
    IF Len(u) * n = 0 THEN <<>>
    ELSE [i \in 1..(Len(u) * n) |-> u[((i - 1) % Len(u)) + 1]]

\* str(n) for a non-negative integer
RECURSIVE str(_)
str(n) == IF n < 10 THEN <<DigitChars[n + 1]>>
          ELSE str(n \div 10) \o <<DigitChars[(n % 10) + 1]>>

---------------------------------------------------------------------------
(* scripts/pdf_analyzer.py: configuration *)

MIN_NONWS_CHARS == 50
\* MIN_ALPHA_RATIO = 0.4, as the fraction MIN_ALPHA_RATIO_NUM / MIN_ALPHA_RATIO_DEN
MIN_ALPHA_RATIO_NUM == 4
MIN_ALPHA_RATIO_DEN == 10

\* sum(1 for c in text if not c.isspace())
nonws_len(t) == Cardinality({i \in 1..Len(t) : ~isspace(t[i])})

\* The mutants of looks_garbled used by the checks below.
looks_garbled_empty_is_garbled(t) ==
    LET non_ws == {i \in 1..Len(t) : ~isspace(t[i])}
        n == Cardinality(non_ws)
        non_ascii_alpha == Cardinality({i \in non_ws : isalpha(t[i]) /\ non_ascii(t[i])})
        alpha_count == Cardinality({i \in non_ws : isalpha(t[i])})
        digits_in_word == Cardinality({i \in 2..(Len(t) - 1) :
            isdigit(t[i]) /\ isalpha(t[i - 1]) /\ isalpha(t[i + 1])})
    IN  IF n = 0 THEN TRUE
        ELSE IF non_ascii_alpha * 100 >= 15 * n THEN FALSE
        ELSE IF alpha_count * MIN_ALPHA_RATIO_DEN < MIN_ALPHA_RATIO_NUM * n THEN TRUE
        ELSE digits_in_word * 1000 > 5 * n

looks_garbled_override_last(t) ==
    LET non_ws == {i \in 1..Len(t) : ~isspace(t[i])}
        n == Cardinality(non_ws)
        non_ascii_alpha == Cardinality({i \in non_ws : isalpha(t[i]) /\ non_ascii(t[i])})
        alpha_count == Cardinality({i \in non_ws : isalpha(t[i])})
        digits_in_word == Cardinality({i \in 2..(Len(t) - 1) :
            isdigit(t[i]) /\ isalpha(t[i - 1]) /\ isalpha(t[i + 1])})
    IN  IF n = 0 THEN FALSE
        ELSE IF alpha_count * MIN_ALPHA_RATIO_DEN < MIN_ALPHA_RATIO_NUM * n THEN TRUE
        ELSE IF non_ascii_alpha * 100 >= 15 * n THEN FALSE
        ELSE digits_in_word * 1000 > 5 * n

\* Counts every digit, inside a word or not.
looks_garbled_any_digit(t) ==
    LET non_ws == {i \in 1..Len(t) : ~isspace(t[i])}
        n == Cardinality(non_ws)
        non_ascii_alpha == Cardinality({i \in non_ws : isalpha(t[i]) /\ non_ascii(t[i])})
        alpha_count == Cardinality({i \in non_ws : isalpha(t[i])})
        digits_in_word == Cardinality({i \in 1..Len(t) : isdigit(t[i])})
    IN  IF n = 0 THEN FALSE
        ELSE IF non_ascii_alpha * 100 >= 15 * n THEN FALSE
        ELSE IF alpha_count * MIN_ALPHA_RATIO_DEN < MIN_ALPHA_RATIO_NUM * n THEN TRUE
        ELSE digits_in_word * 1000 > 5 * n

\* looks_garbled(text).  The float comparisons a / n >= 0.15, a / n < 0.4 and
\* d / n > 0.005 are taken over the rationals (cross-multiplied); for the text
\* lengths of a page the correctly rounded quotients compare the same way.
looks_garbled(t) ==
    LET non_ws == {i \in 1..Len(t) : ~isspace(t[i])}
        n == Cardinality(non_ws)
        non_ascii_alpha == Cardinality({i \in non_ws : isalpha(t[i]) /\ non_ascii(t[i])})
        alpha_count == Cardinality({i \in non_ws : isalpha(t[i])})
        \* range(1, len(text) - 1), 0-based, is 2..Len(t)-1, 1-based
        digits_in_word == Cardinality({i \in 2..(Len(t) - 1) :
            isdigit(t[i]) /\ isalpha(t[i - 1]) /\ isalpha(t[i + 1])})
    IN  IF n = 0 THEN FALSE
        ELSE IF non_ascii_alpha * 100 >= 15 * n THEN FALSE
        ELSE IF alpha_count * MIN_ALPHA_RATIO_DEN < MIN_ALPHA_RATIO_NUM * n THEN TRUE
        ELSE digits_in_word * 1000 > 5 * n

---------------------------------------------------------------------------
(* The classifier on its own: every text of ClassifierTexts is classified. *)

\* Bound: the longest unit a text is built from.
MaxUnitLen == 3

Alphabet == {"a", "U+0436", "3", "#", " "}

RECURSIVE SeqsUpTo(_, _)
SeqsUpTo(S, n) ==
    IF n = 0 THEN {<<>>}
    ELSE LET shorter == SeqsUpTo(S, n - 1)
         IN  shorter \cup {Append(s, c) : s \in {x \in shorter : Len(x) = n - 1}, c \in S}

Units == SeqsUpTo(Alphabet, MaxUnitLen)
UnitReps == {0, 1, 3}
FillCounts == {0, 1, 17}

\* The docstring's sample of Cyrillic stored as look-alike Latin code points.
GarbledSample == <<"H", "3", "y", "q", "a", "J", "I", "H", "C", "b", " ",
                   "p", "a", "6", "o", "T", "a">>

\* Texts at the thresholds of lines 125 and 132.
BoundaryTexts ==
    {Repeat(GarbledSample \o <<" ">>, k) : k \in 1..3}
    \cup {<<"a", "3", "a">> \o Repeat(<<"a">>, m) : m \in {196, 197, 198}}   \* 1/199, 1/200, 1/201
    \cup {Repeat(<<"a", "a", "#", "#", "#">>, k) : k \in 1..2}              \* alpha 2/5
    \cup {<<"a", "a", "a", "#", "#", "#", "#", "#">>}                       \* alpha 3/8
    \cup {<<"3", "a", "a">>, <<"a", "a", "3">>, <<"a", "3", " ", "a">>}      \* no digit in a word

\* A unit repeated, followed by a run of one character; and the boundary texts.
ClassifierTexts ==
    {Repeat(u, n) \o Repeat(<<c>>, m) :
        u \in Units \ {<<>>}, n \in UnitReps, c \in Alphabet, m \in FillCounts}
    \cup BoundaryTexts

IdleExtract ==
    /\ doc = <<>>
    /\ page_num = 0
    /\ text_parts = <<>>
    /\ ocr_used = FALSE
    /\ full_text = <<>>
    /\ pc = "idle"
    /\ error = ""
    /\ ocr_log = <<>>
    /\ page_images = <<>>
    /\ image_count = 0
    /\ image_files = {}
    /\ img_log = <<>>

IdleBatch ==
    /\ pdf_files = <<>>
    /\ file_idx = 0
    /\ log_buffer = <<>>
    /\ log_file = <<>>
    /\ batch_pc = "idle"
    /\ returns = <<>>

IdleClassifier ==
    /\ text = <<>>
    /\ verdict = <<>>

NoStats == [tables |-> <<>>, pictures |-> <<>>, chunks |-> <<>>]

IdleMain ==
    /\ tables = <<>>
    /\ doc_chunks = <<>>
    /\ table_slugs = <<>>
    /\ tables_dir = {}
    /\ run_stats = NoStats
    /\ writes = <<>>
    /\ printed = <<>>

IdlePost ==
    /\ pictures = <<>>
    /\ images_dir = {}
    /\ fuzz = FALSE
    /\ built = <<>>
    /\ chunks = <<>>
    /\ stats = <<>>
    /\ passes = <<>>
    /\ pc_post = "idle"
    /\ IdleMain

InitClassifier ==
    /\ IdleBatch
    /\ text \in ClassifierTexts
    /\ verdict = <<>>
    /\ IdleExtract
    /\ IdlePost

Classify ==
    /\ pc = "idle"
    /\ pc_post = "idle"
    /\ verdict = <<>>
    /\ verdict' = <<looks_garbled(text)>>
    /\ UNCHANGED <<text, exVars, ppVars, mainVars, batchVars>>

NextClassifier == Classify

SpecClassifier == InitClassifier /\ [][NextClassifier]_vars

---------------------------------------------------------------------------
(* extract_pdf: the page loop, then text.txt *)

\* Bound: the longest document.
MaxPages == 3

\* Native page texts: get_text() of a page.
SparseReliable == Repeat(<<"a">>, 10)                      \* 10 non-ws, letters only
Sparse30Reliable == Repeat(<<"a", "b", " ">>, 15)          \* 30 non-ws, letters only
Sparse30Garbled == Repeat(<<"#", "3", "#">>, 10)           \* 30 non-ws, no letter
Dense49 == Repeat(<<"a">>, 49)                             \* 49 non-ws, letters only
Dense50 == Repeat(<<"a">>, 50)                             \* 50 non-ws, letters only
LowAlpha == Repeat(<<"a", "#", "3", "#", "#", " ">>, 10)   \* 50 non-ws, alpha ratio 0.2
CyrTable == Repeat(<<"U+0436", "3", "3", "3", "3", "\n">>, 12) \* 60 non-ws, 20% Cyrillic
PageTexts == {SparseReliable, Sparse30Reliable, Sparse30Garbled, Dense49, Dense50,
              LowAlpha, CyrTable}

\* What pytesseract.image_to_string returns, and what it or page_to_pil raises.
OcrTexts == {Repeat(<<"H", "3", "y", " ">>, 5)}
OcrErrors == {<<"d", "e", "a", "d">>}

Docs == UNION {[1..n -> PageTexts] : n \in 0..MaxPages}

\* The mutant of FmtOcr: the block of a recognised page carries no OCR tag.
FmtOcr_untagged(lbl, ocr_text) ==
    <<"[", "P", "a", "g", "e", " ">> \o str(lbl) \o <<"]", "\n">> \o ocr_text

\* f"[Page {label} — OCR]\n{ocr_text}"
FmtOcr(lbl, ocr_text) ==
    <<"[", "P", "a", "g", "e", " ">> \o str(lbl)
        \o <<" ", "U+2014", " ", "O", "C", "R", "]", "\n">> \o ocr_text

\* f"[Page {label} — OCR failed: {ocr_err}]"
FmtOcrFailed(lbl, ocr_err) ==
    <<"[", "P", "a", "g", "e", " ">> \o str(lbl)
        \o <<" ", "U+2014", " ", "O", "C", "R", " ", "f", "a", "i", "l", "e", "d", ":", " ">>
        \o ocr_err \o <<"]">>

\* f"[Page {label}]\n{raw_text}"
FmtNative(lbl, raw) ==
    <<"[", "P", "a", "g", "e", " ">> \o str(lbl) \o <<"]", "\n">> \o raw

\* "\n\n".join(parts)
RECURSIVE Join(_)
Join(parts) ==
    IF Len(parts) = 0 THEN <<>>
    ELSE IF Len(parts) = 1 THEN parts[1]
    ELSE parts[1] \o <<"\n", "\n">> \o Join(Tail(parts))

\* The mutant of label: the 0-based loop index is used as the label.
label_zero_based == page_num

\* label = page_num + 1, for the page the next iteration handles
label == page_num + 1

\* raw_text = doc[page_num].get_text(); pages are 0-based in the code, 1-based here
raw_text == doc[page_num + 1]

\* The mutant of NeedsOcr: both conditions are required.
NeedsOcr_both(t) ==
    nonws_len(t) < MIN_NONWS_CHARS /\ looks_garbled(t)

\* The condition of the if at the head of the OCR fallback.
NeedsOcr(t) ==
    nonws_len(t) < MIN_NONWS_CHARS \/ looks_garbled(t)

\* Image filters: MIN_IMG_WIDTH, MIN_IMG_HEIGHT, and the text cutoff of the
\* full-page test (line 221).
MIN_IMG_WIDTH == 50
MIN_IMG_HEIGHT == 50
FULL_PAGE_TEXT_NWS == 300
\* The share of the page a full-page image covers (0.85), in percent.
FULL_PAGE_COVER == 85

\* page.rect of every page of the input documents.
PAGE_WIDTH == 100
PAGE_HEIGHT == 100

\* The embedded resources of the input documents, by xref: the size of
\* fitz.Pixmap(doc, xref), page.get_image_rects(xref), and the call that raises
\* when the image is handled ("none", "read", "rects", "normalise", "save").
Resources ==
    [x \in 1..7 |->
        CASE x = 1 -> [width |-> 60, height |-> 60, fault |-> "none",
                       rects |-> <<[width |-> 100, height |-> 100]>>]
          [] x = 2 -> [width |-> 50, height |-> 50, fault |-> "none",
                       rects |-> <<[width |-> 85, height |-> 85], [width |-> 10, height |-> 10]>>]
          [] x = 3 -> [width |-> 60, height |-> 60, fault |-> "none",
                       rects |-> <<[width |-> 84, height |-> 100]>>]
          [] x = 4 -> [width |-> 49, height |-> 60, fault |-> "none",
                       rects |-> <<[width |-> 100, height |-> 100]>>]
          [] x = 5 -> [width |-> 60, height |-> 60, fault |-> "save", rects |-> <<>>]
          [] x = 6 -> [width |-> 60, height |-> 60, fault |-> "read",
                       rects |-> <<[width |-> 100, height |-> 100]>>]
          [] x = 7 -> [width |-> 60, height |-> 60, fault |-> "normalise",
                       rects |-> <<[width |-> 100, height |-> 84]>>]]
Xrefs == DOMAIN Resources

\* f"page{label}_img{img_index}.png"
image_name(lbl, img_index) ==
    <<"p", "a", "g", "e">> \o str(lbl) \o <<"_", "i", "m", "g">> \o str(img_index)
        \o <<".", "p", "n", "g">>

\* The mutant of already_seen: no placement is taken for a duplicate.
already_seen_never(xref, seen_xrefs) == FALSE

\* if xref in seen_xrefs (line 200)
already_seen(xref, seen_xrefs) == xref \in seen_xrefs

\* The mutant of on_image_error: the failed image is counted.
on_image_error_counts(acc) == [acc EXCEPT !.image_count = @ + 1]

\* The mutant of on_image_error: the xrefs seen on the page are forgotten, so a
\* later placement of the failed image is attempted again.
on_image_error_forgets(acc) == [acc EXCEPT !.seen_xrefs = {}]

\* except Exception: pass (lines 255-257)
on_image_error(acc) == acc

\* One img_info of page.get_images() (lines 199-257), the placement at position
\* pos of the page labelled lbl, whose block has nws non-whitespace characters.
\* acc holds seen_xrefs, img_index, image_count, the files written and the
\* outcome of each placement so far.
image_step(xref, lbl, nws, pos, acc) ==
    LET pix == Resources[xref]
        rects == pix.rects
        out(result, name) ==
            [page |-> lbl, pos |-> pos, xref |-> xref, result |-> result, name |-> name]
        logged(a, result) == [a EXCEPT !.log = Append(@, out(result, <<>>))]
        seen == [acc EXCEPT !.seen_xrefs = @ \cup {xref}]
        full_page ==
            /\ Len(rects) > 0
            /\ rects[1].width * 100 >= PAGE_WIDTH * FULL_PAGE_COVER
            /\ rects[1].height * 100 >= PAGE_HEIGHT * FULL_PAGE_COVER
            /\ nws > FULL_PAGE_TEXT_NWS
        indexed == [seen EXCEPT !.img_index = @ + 1]
        out_path == image_name(lbl, indexed.img_index)
    IN  IF already_seen(xref, acc.seen_xrefs) THEN logged(acc, "duplicate")
        ELSE IF pix.fault = "read" THEN logged(on_image_error(seen), "raised")
        ELSE IF pix.width < MIN_IMG_WIDTH \/ pix.height < MIN_IMG_HEIGHT
            THEN logged(seen, "small")
        ELSE IF pix.fault = "rects" THEN logged(on_image_error(seen), "raised")
        ELSE IF full_page THEN logged(seen, "full_page")
        ELSE IF pix.fault = "normalise" THEN logged(on_image_error(seen), "raised")
        ELSE IF pix.fault = "save" THEN logged(on_image_error(indexed), "raised")
        ELSE [indexed EXCEPT !.image_count = @ + 1,
                             !.files = @ \cup {out_path},
                             !.log = Append(@, out("saved", out_path))]

RECURSIVE image_loop_from(_, _, _, _, _)
image_loop_from(xrefs, pos, lbl, nws, acc) ==
    IF pos > Len(xrefs) THEN acc
    ELSE image_loop_from(xrefs, pos + 1, lbl, nws, image_step(xrefs[pos], lbl, nws, pos, acc))

\* for img_info in page.get_images(full=True): ... (lines 195-257)
image_loop(xrefs, lbl, nws, count) ==
    image_loop_from(xrefs, 1, lbl, nws,
        [seen_xrefs |-> {}, img_index |-> 0, image_count |-> count, files |-> {}, log |-> <<>>])

InitExtract ==
    /\ IdleBatch
    /\ IdleClassifier
    /\ IdlePost
    /\ doc \in Docs
    /\ page_num = 0
    /\ text_parts = <<>>
    /\ ocr_used = FALSE
    /\ full_text = <<>>
    /\ pc = "pages"
    /\ error = ""
    /\ ocr_log = <<>>
    /\ page_images = [p \in 1..Len(doc) |-> <<>>]
    /\ image_count = 0
    /\ image_files = {}
    /\ img_log = <<>>

\* The second half of an iteration (lines 187-257): the image loop of the page
\* whose block has just been appended.
ImageLoop(block) ==
    LET acc == image_loop(page_images[page_num + 1], label, nonws_len(block), image_count)
    IN  /\ image_count' = acc.image_count
        /\ image_files' = image_files \cup acc.files
        /\ img_log' = img_log \o acc.log
        /\ UNCHANGED page_images

\* One iteration: the fallback is taken and recognition returns ocr_text.
PageOcrOk ==
    /\ pc = "pages"
    /\ page_num < Len(doc)
    /\ NeedsOcr(raw_text)
    /\ \E ocr_text \in OcrTexts :
        /\ text_parts' = Append(text_parts, FmtOcr(label, ocr_text))
        /\ ocr_log' = Append(ocr_log, [page |-> page_num + 1, ok |-> TRUE, out |-> ocr_text])
        /\ ImageLoop(FmtOcr(label, ocr_text))
    /\ ocr_used' = TRUE
    /\ page_num' = page_num + 1
    /\ UNCHANGED <<clsVars, ppVars, mainVars, batchVars, doc, full_text, pc, error>>

\* The mutant of PageOcrFailed: the exception leaves extract_pdf.
PageOcrFailed_propagates ==
    /\ pc = "pages"
    /\ page_num < Len(doc)
    /\ NeedsOcr(raw_text)
    /\ \E ocr_err \in OcrErrors :
        ocr_log' = Append(ocr_log, [page |-> page_num + 1, ok |-> FALSE, out |-> ocr_err])
    /\ pc' = "raised"
    /\ error' = "ocr"
    /\ UNCHANGED <<clsVars, ppVars, mainVars, batchVars, imVars, doc, page_num, text_parts, ocr_used, full_text>>

\* One iteration: the fallback is taken and rendering or recognition raises.
PageOcrFailed ==
    /\ pc = "pages"
    /\ page_num < Len(doc)
    /\ NeedsOcr(raw_text)
    /\ \E ocr_err \in OcrErrors :
        /\ text_parts' = Append(text_parts, FmtOcrFailed(label, ocr_err))
        /\ ocr_log' = Append(ocr_log, [page |-> page_num + 1, ok |-> FALSE, out |-> ocr_err])
        /\ ImageLoop(FmtOcrFailed(label, ocr_err))
    /\ page_num' = page_num + 1
    /\ UNCHANGED <<clsVars, ppVars, mainVars, batchVars, doc, ocr_used, full_text, pc, error>>

\* One iteration: the native text is kept.
PageNative ==
    /\ pc = "pages"
    /\ page_num < Len(doc)
    /\ ~NeedsOcr(raw_text)
    /\ text_parts' = Append(text_parts, FmtNative(label, raw_text))
    /\ ImageLoop(FmtNative(label, raw_text))
    /\ page_num' = page_num + 1
    /\ UNCHANGED <<clsVars, ppVars, mainVars, batchVars, doc, ocr_used, full_text, pc, error, ocr_log>>

\* One iteration: doc[page_num] or page.get_text() raises (outside any try
\* but the finally that closes the document): extract_pdf raises.
PageRaises ==
    /\ pc = "pages"
    /\ page_num < Len(doc)
    /\ pc' = "raised"
    /\ error' = "get_text"
    /\ UNCHANGED <<clsVars, ppVars, mainVars, batchVars, imVars, doc, page_num, text_parts, ocr_used, full_text, ocr_log>>

\* After the loop: full_text is joined and written, the row is returned.
WriteText ==
    /\ pc = "pages"
    /\ page_num = Len(doc)
    /\ full_text' = Join(text_parts)
    /\ pc' = "done"
    /\ UNCHANGED <<clsVars, ppVars, mainVars, batchVars, imVars, doc, page_num, text_parts, ocr_used, error, ocr_log>>

NextExtract ==
    \/ PageOcrOk
    \/ PageOcrFailed
    \/ PageNative
    \/ PageRaises
    \/ WriteText

SpecExtract == InitExtract /\ [][NextExtract]_vars

---------------------------------------------------------------------------
(* extract_pdf on two-page documents with embedded images *)

\* Bound: the most img_info entries page.get_images() returns for the first page.
MaxPlacements == 3

\* get_images() of the first page: nothing, one resource, or two placements
\* followed by further placements of the first one.
XrefLists ==
    {<<>>} \cup {<<x>> : x \in Xrefs}
    \cup {<<x, y>> \o Repeat(<<x>>, n) : x \in Xrefs, y \in Xrefs, n \in 0..(MaxPlacements - 2)}

\* Native texts of the first page: reliable text of 200 to 500 characters
\* around the cutoff of the full-page test, and a sparse page.  The second
\* page is sparse.
ImageTexts == {Repeat(<<"a">>, n) : n \in {200, 293, 294, 500}} \cup {SparseReliable}

InitImages ==
    /\ IdleBatch
    /\ IdleClassifier
    /\ IdlePost
    /\ \E first \in ImageTexts : doc = <<first, SparseReliable>>
    /\ \E first \in XrefLists, second \in {<<>>, <<1>>, <<5>>} :
           page_images = <<first, second>>
    /\ page_num = 0
    /\ text_parts = <<>>
    /\ ocr_used = FALSE
    /\ full_text = <<>>
    /\ pc = "pages"
    /\ error = ""
    /\ ocr_log = <<>>
    /\ image_count = 0
    /\ image_files = {}
    /\ img_log = <<>>

SpecImages == InitImages /\ [][NextExtract]_vars

---------------------------------------------------------------------------
(* scripts/pdf_analyzer.py: main, the loop over the PDFs found *)

\* Bound: the most PDFs under DOWNLOADS_DIR.
MaxFiles == 2

\* The paths of the PDFs, in sorted order (collect_pdfs sorts); they are in
\* one species directory.
PdfPaths == <<"a.pdf", "b.pdf", "c.pdf", "d.pdf">>

\* The documents: no page; a dense page with an image whose save raises and a
\* full-page image; a sparse page; a dense page followed by a sparse page
\* with an image.
BatchDocs == {[pages |-> <<>>, images |-> <<>>],
              [pages |-> <<Dense50>>, images |-> <<<<5, 1>>>>],
              [pages |-> <<SparseReliable>>, images |-> <<<<>>>>],
              [pages |-> <<Dense50, SparseReliable>>, images |-> <<<<>>, <<1>>>>]}

\* LOG_FIELDS and the header row writeheader() writes
LOG_HEADER == [file_path |-> "file_path", species |-> "species", page_count |-> <<"p", "a", "g", "e", "_", "c", "o", "u", "n", "t">>,
               text_length |-> <<"t", "e", "x", "t", "_", "l", "e", "n", "g", "t", "h">>,
               image_count |-> <<"i", "m", "a", "g", "e", "_", "c", "o", "u", "n", "t">>,
               ocr_used |-> <<"o", "c", "r", "_", "u", "s", "e", "d">>, error |-> "error"]

\* A value as csv.DictWriter writes it: str(value)
csv_bool(b) == IF b THEN <<"T", "r", "u", "e">> ELSE <<"F", "a", "l", "s", "e">>

\* The row extract_pdf returns (lines 288-296), and the row main builds when
\* extract_pdf raised (lines 333-341).
returned_row(path, species) ==
    [file_path |-> path, species |-> species, page_count |-> str(Len(doc)), text_length |-> str(Len(full_text)),
     image_count |-> str(image_count), ocr_used |-> csv_bool(ocr_used), error |-> ""]
except_row(path, species) ==
    [file_path |-> path, species |-> species, page_count |-> <<>>, text_length |-> <<>>,
     image_count |-> <<>>, ocr_used |-> <<>>, error |-> error]

InitBatch ==
    /\ IdleClassifier
    /\ IdlePost
    /\ IdleExtract
    /\ \E n \in 0..MaxFiles : \E docs \in [1..n -> BatchDocs] :
           pdf_files = [i \in 1..n |-> [path |-> PdfPaths[i], species |-> "Pardosa",
                                        pages |-> docs[i].pages, images |-> docs[i].images]]
    /\ file_idx = 0
    /\ log_buffer = <<>>
    /\ log_file = <<>>
    /\ batch_pc = "start"
    /\ returns = <<>>

\* if not pdf_files: sys.exit(0), before the log is opened (lines 313-316)
ExitNoFiles ==
    /\ batch_pc = "start"
    /\ Len(pdf_files) = 0
    /\ batch_pc' = "exit"
    /\ UNCHANGED <<clsVars, exVars, ppVars, mainVars, pdf_files, file_idx, log_buffer,
                   log_file, returns>>

\* open(LOG_FILE, "w"), writer.writeheader() (lines 322-324)
OpenLog ==
    /\ batch_pc = "start"
    /\ Len(pdf_files) > 0
    /\ log_file' = <<>>
    /\ log_buffer' = <<LOG_HEADER>>
    /\ batch_pc' = "loop"
    /\ UNCHANGED <<clsVars, exVars, ppVars, mainVars, pdf_files, file_idx, returns>>

\* The next PDF: extract_pdf is called and sets up its locals (lines 326-331,
\* 150-163).
StartDocument ==
    /\ batch_pc = "loop"
    /\ file_idx < Len(pdf_files)
    /\ doc' = pdf_files[file_idx + 1].pages
    /\ page_images' = pdf_files[file_idx + 1].images
    /\ page_num' = 0
    /\ text_parts' = <<>>
    /\ ocr_used' = FALSE
    /\ full_text' = <<>>
    /\ error' = ""
    /\ ocr_log' = <<>>
    /\ image_count' = 0
    /\ image_files' = {}
    /\ img_log' = <<>>
    /\ pc' = "pages"
    /\ batch_pc' = "extract"
    /\ UNCHANGED <<clsVars, ppVars, mainVars, pdf_files, file_idx, log_buffer, log_file, returns>>

\* The mutant of WriteRow: the row is written and not flushed.
WriteRow_unflushed ==
    /\ batch_pc = "extract"
    /\ pc \in {"done", "raised"}
    /\ LET path == pdf_files[file_idx + 1].path
           species == pdf_files[file_idx + 1].species
           row == IF pc = "done" THEN returned_row(path, species)
                  ELSE except_row(path, species)
       IN  /\ log_buffer' = Append(log_buffer, row)
           /\ log_file' = log_file
    /\ returns' = Append(returns, IF pc = "done" THEN "returned" ELSE "raised")
    /\ file_idx' = file_idx + 1
    /\ batch_pc' = "loop"
    /\ pc' = "idle"
    /\ UNCHANGED <<clsVars, ppVars, mainVars, pdf_files, doc, page_num, text_parts, ocr_used,
                   full_text, error, ocr_log, imVars>>

\* extract_pdf has returned its row or raised: the except clause builds the
\* row of a failed document, the row is written and the log flushed
\* (lines 330-344).
WriteRow ==
    /\ batch_pc = "extract"
    /\ pc \in {"done", "raised"}
    /\ LET path == pdf_files[file_idx + 1].path
           species == pdf_files[file_idx + 1].species
           row == IF pc = "done" THEN returned_row(path, species)
                  ELSE except_row(path, species)
       IN  /\ log_file' = log_file \o log_buffer \o <<row>>
           /\ log_buffer' = <<>>
    /\ returns' = Append(returns, IF pc = "done" THEN "returned" ELSE "raised")
    /\ file_idx' = file_idx + 1
    /\ batch_pc' = "loop"
    /\ pc' = "idle"
    /\ UNCHANGED <<clsVars, ppVars, mainVars, pdf_files, doc, page_num, text_parts, ocr_used,
                   full_text, error, ocr_log, imVars>>

\* The loop is over: the with block closes the log, "Extraction complete" is
\* printed (line 346).
CloseLog ==
    /\ batch_pc = "loop"
    /\ file_idx = Len(pdf_files)
    /\ log_file' = log_file \o log_buffer
    /\ log_buffer' = <<>>
    /\ batch_pc' = "complete"
    /\ UNCHANGED <<clsVars, exVars, ppVars, mainVars, pdf_files, file_idx, returns>>

NextBatch ==
    \/ ExitNoFiles
    \/ OpenLog
    \/ StartDocument
    \/ NextExtract
    \/ WriteRow
    \/ CloseLog

SpecBatch == InitBatch /\ [][NextBatch]_vars

---------------------------------------------------------------------------
(* Properties of looks_garbled and extract_pdf *)

\* The characters of the page label of pages 1..9, as the properties read them.
PageDigits == <<"1", "2", "3", "4", "5", "6", "7", "8", "9">>
MarkerHead(p) == <<"[", "P", "a", "g", "e", " ", PageDigits[p]>>
OcrTag == <<" ", "U+2014", " ", "O", "C", "R", "]", "\n">>
OcrFailedTag == <<" ", "U+2014", " ", "O", "C", "R", " ", "f", "a", "i", "l", "e", "d", ":", " ">>
NativeTag == <<"]", "\n">>

StartsWith(s, pre) == Len(s) >= Len(pre) /\ SubSeq(s, 1, Len(pre)) = pre
CountOf(t, S) == Cardinality({i \in 1..Len(t) : t[i] \in S})
NonWsCount(t) == Len(t) - CountOf(t, {" ", "\n"})

\* The pages on which recognition was attempted.
Attempted == {ocr_log[k].page : k \in DOMAIN ocr_log}
AllOcrOk == \A k \in DOMAIN ocr_log : ocr_log[k].ok

\* C4: for every page the loop has handled, recognition was attempted if and
\* only if the native text has fewer than 50 non-whitespace characters or
\* looks_garbled is true of it; a page with 30 such characters is always tried.
C4_OcrIffSparseOrGarbled ==
    \A p \in 1..page_num :
        /\ (p \in Attempted) <=> (NonWsCount(doc[p]) < 50 \/ looks_garbled(doc[p]))
        /\ NonWsCount(doc[p]) = 30 => p \in Attempted

\* A page of 30 non-whitespace characters that the classifier finds reliable
\* has been sent to recognition.
C4_Witness ==
    \E p \in 1..page_num :
        /\ NonWsCount(doc[p]) = 30
        /\ ~looks_garbled(doc[p])
        /\ p \in Attempted

\* C5: when extract_pdf returns, ocr_used is true if and only if at least one
\* page triggered recognition, whatever the outcome of the call.
C5_OcrUsedIffTriggered ==
    pc = "done" => (ocr_used <=> Attempted # {})

\* C6: a page whose recognition raised has a placeholder block with its label
\* and the failure reason, its iteration completed (nothing was raised out of
\* extract_pdf), and at the end there is one block per page.
C6_OcrFailureKeepsPage ==
    /\ \A k \in DOMAIN ocr_log :
        ~ocr_log[k].ok =>
            LET p == ocr_log[k].page
            IN  /\ p <= page_num
                /\ p <= Len(text_parts)
                /\ text_parts[p] =
                       MarkerHead(p) \o OcrFailedTag \o ocr_log[k].out \o <<"]">>
    /\ pc = "done" => page_num = Len(doc) /\ Len(text_parts) = Len(doc)

\* Recognition failed on a page that is not the last, and the document was
\* finished.
C6_Witness ==
    /\ pc = "done"
    /\ \E k \in DOMAIN ocr_log : ~ocr_log[k].ok /\ ocr_log[k].page < Len(doc)

\* Where block i starts in the joined text.
RECURSIVE BlockStart(_)
BlockStart(i) == IF i = 1 THEN 1 ELSE BlockStart(i - 1) + Len(text_parts[i - 1]) + 2

\* C7: the final text holds exactly one block per page, block i is page i's,
\* in increasing order, each starting with the marker of its page label, and
\* the blocks are separated by one empty line.
C7_OneBlockPerPageInOrder ==
    pc = "done" =>
        /\ Len(text_parts) = Len(doc)
        /\ \A i \in 1..Len(text_parts) :
            /\ StartsWith(text_parts[i], MarkerHead(i))
            /\ text_parts[i][Len(MarkerHead(i)) + 1] \in {"]", " "}
            /\ SubSeq(full_text, BlockStart(i), BlockStart(i) + Len(text_parts[i]) - 1)
                   = text_parts[i]
            /\ i > 1 => SubSeq(full_text, BlockStart(i) - 2, BlockStart(i) - 1)
                            = <<"\n", "\n">>
        /\ Len(doc) > 0 =>
               Len(full_text) = BlockStart(Len(doc)) + Len(text_parts[Len(doc)]) - 1
        /\ Len(doc) = 0 => full_text = <<>>

\* A finished document of three pages with a native, a recognised and a failed
\* page.
C7_Witness ==
    /\ pc = "done"
    /\ Len(doc) = 3
    /\ Len(ocr_log) = 2
    /\ ~AllOcrOk
    /\ \E k \in DOMAIN ocr_log : ocr_log[k].ok

HasOcrTag(p) == StartsWith(text_parts[p], MarkerHead(p) \o OcrTag)
Scenario3 == <<Dense50, SparseReliable, LowAlpha>>

\* C8: when every recognition call succeeded, the blocks with the OCR tag are
\* exactly those of the pages that triggered recognition and every other block
\* is the native marker followed by the native text; for the three-page
\* scenario (reliable, 10 non-whitespace characters, alpha ratio 0.2) the OCR
\* markers are on pages 2 and 3 only and ocr_used is true.
C8_OcrTagsExactlyTriggered ==
    (pc = "done" /\ AllOcrOk) =>
        /\ \A p \in 1..Len(doc) :
            /\ HasOcrTag(p) <=> p \in Attempted
            /\ p \notin Attempted =>
                   text_parts[p] = MarkerHead(p) \o NativeTag \o doc[p]
        /\ doc = Scenario3 =>
            /\ {p \in 1..3 : HasOcrTag(p)} = {2, 3}
            /\ text_parts[1] = MarkerHead(1) \o NativeTag \o Dense50
            /\ ocr_used

\* The three-page scenario has run to the end with every recognition succeeding.
C8_Witness ==
    /\ pc = "done"
    /\ AllOcrOk
    /\ doc = Scenario3
    /\ NonWsCount(doc[2]) = 10
    /\ CountOf(doc[3], LatinLetters) * 10 = 2 * NonWsCount(doc[3])

\* C9: a text with no non-whitespace character is classified reliable.
C9_BlankIsReliable ==
    (verdict # <<>> /\ \A i \in 1..Len(text) : text[i] \in {" ", "\n"})
        => verdict = <<FALSE>>

\* A text of several whitespace characters has been classified.
C9_Witness ==
    /\ verdict = <<FALSE>>
    /\ Len(text) >= 2
    /\ \A i \in 1..Len(text) : text[i] \in {" ", "\n"}

\* C10: a text whose non-ASCII letters are at least 15% of its non-whitespace
\* characters is classified reliable, whatever its share of letters and
\* whatever its digits inside words.
C10_NonLatinOverride ==
    (/\ verdict # <<>>
     /\ NonWsCount(text) > 0
     /\ CountOf(text, {"U+0436"}) * 100 >= 15 * NonWsCount(text))
        => verdict = <<FALSE>>

\* A text of exactly 15% Cyrillic letters and 85% digits has been classified.
C10_Witness ==
    /\ verdict = <<FALSE>>
    /\ NonWsCount(text) = 20
    /\ CountOf(text, {"U+0436"}) = 3
    /\ CountOf(text, {"3"}) = 17

\* The digits of a text that stand between two letters.
Letters == LatinLetters \cup {"U+0436"}
FlankedDigits(t) ==
    {i \in 1..Len(t) :
        /\ t[i] \in {"0", "1", "2", "3", "4", "5", "6", "7", "8", "9"}
        /\ i > 1 /\ t[i - 1] \in Letters
        /\ i < Len(t) /\ t[i + 1] \in Letters}

\* C11: a text with a non-whitespace character and fewer than 15% non-ASCII
\* letters is classified garbled if and only if letters are less than 40% of
\* its non-whitespace characters, or its digits between two letters are more
\* than 0.5% of them; the repeated sample is garbled, and a text at exactly
\* 0.5% (one such digit in 200 characters) is reliable.
C11_GarbledIffLowAlphaOrDigitsInWords ==
    (/\ verdict # <<>>
     /\ NonWsCount(text) > 0
     /\ CountOf(text, {"U+0436"}) * 100 < 15 * NonWsCount(text))
        => /\ verdict = <<(\/ CountOf(text, Letters) * 10 < 4 * NonWsCount(text)
                          \/ Cardinality(FlankedDigits(text)) * 1000 > 5 * NonWsCount(text))>>
           /\ (\E k \in 1..3 : text = Repeat(GarbledSample \o <<" ">>, k))
                  => verdict = <<TRUE>>
           /\ (Cardinality(FlankedDigits(text)) * 200 = NonWsCount(text)
                /\ CountOf(text, Letters) * 10 >= 4 * NonWsCount(text))
                  => verdict = <<FALSE>>

\* The text of 200 characters with one digit inside a word has been classified
\* reliable.
C11_Witness ==
    /\ verdict = <<FALSE>>
    /\ NonWsCount(text) = 200
    /\ Cardinality(FlankedDigits(text)) = 1

\* What became of placement k of page p, once the page has been handled.
Outcome(p, k) ==
    (CHOOSE i \in DOMAIN img_log : img_log[i].page = p /\ img_log[i].pos = k)
FirstPlacement(p, k) == \A j \in 1..(k - 1) : page_images[p][j] # page_images[p][k]
SavedOf(p, x) ==
    {k \in 1..Len(page_images[p]) :
        page_images[p][k] = x /\ img_log[Outcome(p, k)].result = "saved"}

\* C12: on every handled page at most one image is saved per xref; a placement
\* of an xref already seen on the page is never extracted (it is skipped as a
\* duplicate, whatever became of the first one), and the first placement of an
\* xref on a page is never skipped as a duplicate, also when an earlier page
\* had the same xref.
C12_OneImagePerXrefPerPage ==
    \A p \in 1..page_num :
        /\ \A x \in Xrefs : Cardinality(SavedOf(p, x)) <= 1
        /\ \A k \in 1..Len(page_images[p]) :
               (img_log[Outcome(p, k)].result = "duplicate") <=> ~FirstPlacement(p, k)

\* An xref placed on the first page, placed there again after another image,
\* and placed on the second page: saved once on each page.
C12_Witness ==
    /\ pc = "done"
    /\ Len(page_images[1]) = 3
    /\ page_images[1][1] = page_images[1][3]
    /\ page_images[1][1] # page_images[1][2]
    /\ page_images[2] = <<page_images[1][1]>>
    /\ img_log[Outcome(1, 1)].result = "saved"
    /\ img_log[Outcome(1, 3)].result = "duplicate"
    /\ img_log[Outcome(2, 1)].result = "saved"

\* The text of page p as the spec has it: the recognised text, the native
\* text, or the placeholder of a failed recognition; without the page marker
\* that extract_pdf puts in front of the first two.
FinalText(p) ==
    IF p \in Attempted
    THEN LET call == CHOOSE k \in DOMAIN ocr_log : ocr_log[k].page = p
         IN  IF ocr_log[call].ok THEN ocr_log[call].out ELSE text_parts[p]
    ELSE doc[p]

\* A resource of at least 50 x 50 pixels whose first rectangle covers at least
\* 85% of the page in both directions and whose handling does not raise.
FullPageImage(x) ==
    /\ Resources[x].width >= 50 /\ Resources[x].height >= 50
    /\ Resources[x].fault = "none"
    /\ Len(Resources[x].rects) > 0
    /\ Resources[x].rects[1].width * 100 >= 85 * 100
    /\ Resources[x].rects[1].height * 100 >= 85 * 100

\* C13: the first placement of a full-page image of at least the minimum size
\* is rejected if and only if the final text of its page has more than 300
\* non-whitespace characters, and is saved otherwise.
C13_FullPageRejectedIffOver300 ==
    \A p \in 1..page_num : \A k \in 1..Len(page_images[p]) :
        (FirstPlacement(p, k) /\ FullPageImage(page_images[p][k])) =>
            /\ (img_log[Outcome(p, k)].result = "full_page")
                   <=> (NonWsCount(FinalText(p)) > 300)
            /\ (img_log[Outcome(p, k)].result = "saved")
                   <=> (NonWsCount(FinalText(p)) <= 300)

PlacementsOf(p) == {i \in DOMAIN img_log : img_log[i].page = p}
SavedEntries == {i \in DOMAIN img_log : img_log[i].result = "saved"}

\* C14: an image whose handling raised is not counted and leaves no file;
\* every placement of every handled page has been dealt with, those after the
\* failed one too; extract_pdf never raises because of an image, and reaches
\* its end with every page handled.
C14_BadImageIsSkippedOnly ==
    /\ image_count = Cardinality(SavedEntries)
    /\ image_files = {img_log[i].name : i \in SavedEntries}
    /\ Cardinality(image_files) = image_count
    /\ \A p \in 1..page_num : Cardinality(PlacementsOf(p)) = Len(page_images[p])
    /\ \A i \in DOMAIN img_log :
           Resources[img_log[i].xref].fault # "none" => img_log[i].result # "saved"
    /\ error \in {"", "get_text"}
    /\ pc = "done" => page_num = Len(doc)

\* The first image of the first page raised, the next image of that page and
\* the image of the second page were saved, and extract_pdf returned.
C14_Witness ==
    /\ pc = "done"
    /\ Len(page_images[1]) >= 2
    /\ Len(page_images[2]) = 1
    /\ img_log[Outcome(1, 1)].result = "raised"
    /\ img_log[Outcome(1, 2)].result = "saved"
    /\ img_log[Outcome(2, 1)].result = "saved"
    /\ image_count = 2

\* The rows of the log after its header, flushed or not.
LogRows == Tail(log_file \o log_buffer)

\* C18: once the log is open it starts with the header and holds one row per
\* finished document, in the order of the input, all of them flushed; the row
\* of a document whose extraction raised has empty statistics and the error
\* string, the row of a document that was extracted has its page count and an
\* empty error; the loop ends only when every document has its row.
C18_OneRowPerDocument ==
    batch_pc \in {"loop", "extract", "complete"} =>
        /\ (log_file \o log_buffer)[1] = LOG_HEADER
        /\ Len(LogRows) = file_idx
        /\ Len(returns) = file_idx
        /\ file_idx >= 1 => log_buffer = <<>>
        /\ \A k \in 1..file_idx :
            /\ LogRows[k].file_path = pdf_files[k].path
            /\ LogRows[k].species = pdf_files[k].species
            /\ returns[k] = "raised" =>
                   /\ LogRows[k].page_count = <<>> /\ LogRows[k].text_length = <<>>
                   /\ LogRows[k].image_count = <<>> /\ LogRows[k].ocr_used = <<>>
                   /\ LogRows[k].error # ""
            /\ returns[k] = "returned" =>
                   /\ LogRows[k].error = ""
                   /\ LogRows[k].page_count =
                          (IF Len(pdf_files[k].pages) = 0 THEN <<"0">>
                           ELSE <<PageDigits[Len(pdf_files[k].pages)]>>)
                   /\ LogRows[k].text_length # <<>>
                   /\ LogRows[k].image_count # <<>>
                   /\ LogRows[k].ocr_used \in {<<"T", "r", "u", "e">>, <<"F", "a", "l", "s", "e">>}
        /\ batch_pc = "complete" => file_idx = Len(pdf_files)

\* A run over two documents has ended; the extraction of the first raised,
\* the second was extracted.
C18_Witness ==
    /\ batch_pc = "complete"
    /\ returns = <<"raised", "returned">>
    /\ Len(log_file) = 3
    /\ log_file[2].error # ""
    /\ log_file[3].error = ""

---------------------------------------------------------------------------
(* scripts/pdf_processor.py: helpers *)

\* make_slug's max_len
SLUG_MAX_LEN == 50
\* postprocess_chunks' fuzzy_threshold
FUZZY_THRESHOLD == 85

\* ord(c), up to the order of the code points
ord(c) == CHOOSE k \in 1..Len(AsciiTable) : AsciiTable[k] = c

\* a < b for two str values
RECURSIVE str_less(_, _)
str_less(a, b) ==
    IF Len(b) = 0 THEN FALSE
    ELSE IF Len(a) = 0 THEN TRUE
    ELSE IF a[1] = b[1] THEN str_less(Tail(a), Tail(b))
    ELSE ord(a[1]) < ord(b[1])

\* s.lstrip() / s.rstrip(chars)
RECURSIVE lstrip(_)
lstrip(s) == IF Len(s) > 0 /\ isspace(s[1]) THEN lstrip(Tail(s)) ELSE s

RECURSIVE rstrip(_, _)
rstrip(s, chars) ==
    IF Len(s) > 0 /\ s[Len(s)] \in chars THEN rstrip(SubSeq(s, 1, Len(s) - 1), chars)
    ELSE s

\* s[:n]
Take(s, n) == SubSeq(s, 1, IF Len(s) < n THEN Len(s) ELSE n)

\* re.sub(r"\s+", "_", s)
RECURSIVE sub_ws_runs(_)
sub_ws_runs(s) ==
    IF Len(s) = 0 THEN <<>>
    ELSE IF isspace(s[1]) THEN <<"_">> \o sub_ws_runs(lstrip(s))
    ELSE <<s[1]>> \o sub_ws_runs(Tail(s))

\* \w of the re module
isword(c) == isalpha(c) \/ isdigit(c) \/ c = "_"

make_slug(t) ==
    LET kept == SelectSeq(t, LAMBDA c : isword(c) \/ isspace(c) \/ c = "-")
        joined == sub_ws_runs(rstrip(lstrip(kept), Whitespace))
        slug == rstrip(Take(joined, SLUG_MAX_LEN), {"_", "-"})
    IN  IF slug # <<>> THEN slug ELSE Take(t, SLUG_MAX_LEN)

META_SUFFIX == <<"_", "m", "e", "t", "a", ".", "j", "s", "o", "n">>
PNG_SUFFIX == <<".", "p", "n", "g">>
IMAGES_PREFIX == <<"i", "m", "a", "g", "e", "s", "/">>

\* The slug of the i-th picture (1-based, as enumerate(pictures, 1))
picture_slug(pics, i) ==
    IF pics[i].caption # <<>> THEN make_slug(pics[i].caption)
    ELSE <<"f", "i", "g", "u", "r", "e", "_">> \o str(i)

\* extract_pictures: the sidecars in out_dir/images after the loop has handled
\* pictures i..n; ok[i] is whether get_image, save and write_text all returned
\* for picture i.  A sidecar written under an existing name replaces it.
RECURSIVE extract_pictures_from(_, _, _, _)
extract_pictures_from(pics, ok, i, dir) ==
    IF i > Len(pics) THEN dir
    ELSE IF ~ok[i] THEN extract_pictures_from(pics, ok, i + 1, dir)
    ELSE LET name == picture_slug(pics, i) \o META_SUFFIX
             meta == [caption |-> pics[i].caption,
                      page_number |-> pics[i].page,
                      picture_ref |-> pics[i].self_ref]
         IN  extract_pictures_from(pics, ok, i + 1,
                 {f \in dir : f.name # name} \cup {[name |-> name, meta |-> meta]})

extract_pictures(pics, ok) == extract_pictures_from(pics, ok, 1, {})

\* sorted(images_dir.glob("*_meta.json")): the files, by name
RECURSIVE sorted_files(_)
sorted_files(dir) ==
    IF dir = {} THEN <<>>
    ELSE LET first == CHOOSE f \in dir : \A g \in dir \ {f} : str_less(f.name, g.name)
         IN  <<first>> \o sorted_files(dir \ {first})

\* f"images/{img_name}" with img_name = meta_path.name[: -len("_meta.json")] + ".png"
image_path(name) ==
    IMAGES_PREFIX \o SubSeq(name, 1, Len(name) - Len(META_SUFFIX)) \o PNG_SUFFIX

\* _fuzz.partial_ratio(cap_text, chunk_text): rapidfuzz, by its value on the
\* chunk texts of the model.
partial_ratio(cap_text, chunk_text) ==
    CASE chunk_text = "cites the caption" -> 85
      [] chunk_text = "near the caption" -> 84
      [] OTHER -> 0

\* caption_to_pic_ref as a list of (caption, self_ref) in the dict's order:
\* a caption keeps the position of its first picture and the ref of its last.
caption_to_pic_ref(pics) ==
    LET firsts == {i \in 1..Len(pics) :
                     /\ pics[i].caption # <<>>
                     /\ \A j \in 1..(i - 1) : pics[j].caption # pics[i].caption}
        last(cap) == CHOOSE i \in 1..Len(pics) :
                     /\ pics[i].caption = cap
                     /\ \A j \in (i + 1)..Len(pics) : pics[j].caption # cap
        RECURSIVE items(_)
        items(i) == IF i > Len(pics) THEN <<>>
                    ELSE IF i \in firsts
                         THEN <<[cap |-> pics[i].caption,
                                 ref |-> pics[last(pics[i].caption)].self_ref]>>
                              \o items(i + 1)
                    ELSE items(i + 1)
    IN  items(1)

---------------------------------------------------------------------------
(* scripts/pdf_processor.py: the passes of postprocess_chunks.               *)
(* A chunk is [text, headings, item_types, page_numbers, figures, tables];   *)
(* a figure entry is [caption, picture_ref, image_file], image_file = <<>>   *)
(* standing for an entry without that key; a table entry is                  *)
(* [caption, csv_file].                                                      *)

figure_refs(figs) == {figs[i].picture_ref : i \in 1..Len(figs)} \ {""}

RECURSIVE count_figures(_)
count_figures(chs) ==
    IF Len(chs) = 0 THEN 0 ELSE Len(chs[1].figures) + count_figures(Tail(chs))

\* The inner loop of fix_figure_refs over caption_to_pic_ref.items(), from the
\* k-th item on, for one chunk text.
RECURSIVE inject_captions(_, _, _, _)
inject_captions(items, k, chunk_text, figs) ==
    IF k > Len(items) THEN figs
    ELSE IF items[k].ref \in figure_refs(figs)
         THEN inject_captions(items, k + 1, chunk_text, figs)
    ELSE IF partial_ratio(items[k].cap, chunk_text) >= FUZZY_THRESHOLD
         THEN inject_captions(items, k + 1, chunk_text,
                  Append(figs, [caption |-> items[k].cap,
                                picture_ref |-> items[k].ref,
                                image_file |-> <<>>]))
    ELSE inject_captions(items, k + 1, chunk_text, figs)

fix_figure_refs(chs, pics) ==
    IF ~fuzz THEN [chunks |-> chs, injected |-> 0]
    ELSE LET items == caption_to_pic_ref(pics)
             out == [k \in 1..Len(chs) |->
                        IF chs[k].text = "" THEN chs[k]
                        ELSE [chs[k] EXCEPT !.figures =
                                 inject_captions(items, 1, chs[k].text, @)]]
         IN  [chunks |-> out, injected |-> count_figures(out) - count_figures(chs)]

\* pic_ref_to_image.get(ref): the path of the last sidecar, in sorted order,
\* that names ref; <<>> when there is none.
pic_ref_to_image(dir, ref) ==
    LET files == sorted_files(dir)
        hits == {k \in 1..Len(files) : files[k].meta.picture_ref = ref /\ ref # ""}
    IN  IF hits = {} THEN <<>>
        ELSE image_path(files[CHOOSE k \in hits : \A j \in hits : j <= k].name)

\* The mutant of resolve_image_files: an entry that already has an image_file
\* is resolved again and counted again.
resolve_image_files_again(chs, dir) ==
    LET todo(fig) == pic_ref_to_image(dir, fig.picture_ref) # <<>>
        attach(fig) == IF todo(fig)
                       THEN [fig EXCEPT !.image_file = pic_ref_to_image(dir, fig.picture_ref)]
                       ELSE fig
        out == [k \in 1..Len(chs) |->
                   [chs[k] EXCEPT !.figures = [i \in 1..Len(@) |-> attach(@[i])]]]
        RECURSIVE resolved_in(_)
        resolved_in(k) ==
            IF k > Len(chs) THEN 0
            ELSE Cardinality({i \in 1..Len(chs[k].figures) : todo(chs[k].figures[i])})
                 + resolved_in(k + 1)
    IN  [chunks |-> out, resolved |-> resolved_in(1)]

resolve_image_files(chs, dir) ==
    LET todo(fig) == fig.image_file = <<>> /\ pic_ref_to_image(dir, fig.picture_ref) # <<>>
        attach(fig) == IF todo(fig)
                       THEN [fig EXCEPT !.image_file = pic_ref_to_image(dir, fig.picture_ref)]
                       ELSE fig
        out == [k \in 1..Len(chs) |->
                   [chs[k] EXCEPT !.figures = [i \in 1..Len(@) |-> attach(@[i])]]]
        RECURSIVE resolved_in(_)
        resolved_in(k) ==
            IF k > Len(chs) THEN 0
            ELSE Cardinality({i \in 1..Len(chs[k].figures) : todo(chs[k].figures[i])})
                 + resolved_in(k + 1)
    IN  [chunks |-> out, resolved |-> resolved_in(1)]

\* The entries of a list whose key occurs at no earlier position.
first_by_picture_ref(figs) ==
    SelectSeq([i \in 1..Len(figs) |-> [at |-> i, fig |-> figs[i]]],
              LAMBDA e : \A j \in 1..(e.at - 1) : figs[j].picture_ref # e.fig.picture_ref)

first_by_csv_file(tbls) ==
    SelectSeq([i \in 1..Len(tbls) |-> [at |-> i, tbl |-> tbls[i]]],
              LAMBDA e : \A j \in 1..(e.at - 1) : tbls[j].csv_file # e.tbl.csv_file)

\* The mutant of dedup_per_chunk: the pass is left out.
dedup_per_chunk_skipped(chs) == chs

\* The mutant of dedup_per_chunk: a table is also dropped when an earlier chunk
\* holds its csv_file.
dedup_per_chunk_tables_across(chs) ==
    [k \in 1..Len(chs) |->
        [chs[k] EXCEPT
            !.figures = LET kept == first_by_picture_ref(@)
                        IN  [i \in 1..Len(kept) |-> kept[i].fig],
            !.tables = LET kept == first_by_csv_file(@)
                           earlier == UNION {{chs[j].tables[i].csv_file :
                                                 i \in 1..Len(chs[j].tables)} :
                                             j \in 1..(k - 1)}
                       IN  SelectSeq([i \in 1..Len(kept) |-> kept[i].tbl],
                                     LAMBDA t : t.csv_file \notin earlier)]]

dedup_per_chunk(chs) ==
    [k \in 1..Len(chs) |->
        [chs[k] EXCEPT
            !.figures = LET kept == first_by_picture_ref(@)
                        IN  [i \in 1..Len(kept) |-> kept[i].fig],
            !.tables = LET kept == first_by_csv_file(@)
                       IN  [i \in 1..Len(kept) |-> kept[i].tbl]]]

\* dedup_cross_chunk from chunk k, figure i on: seen is the set of refs kept so
\* far, kept the entries kept of chunk k, done the chunks already rewritten.
RECURSIVE dedup_cross_from(_, _, _, _, _, _, _)
dedup_cross_from(chs, k, i, seen, kept, done, removed) ==
    IF k > Len(chs) THEN [chunks |-> done, removed |-> removed]
    ELSE IF i > Len(chs[k].figures)
         THEN dedup_cross_from(chs, k + 1, 1, seen, <<>>,
                  Append(done, [chs[k] EXCEPT !.figures = kept]), removed)
    ELSE LET fig == chs[k].figures[i]
             ref == fig.picture_ref
         IN  IF ref # "" /\ ref \in seen
             THEN dedup_cross_from(chs, k, i + 1, seen, kept, done, removed + 1)
             ELSE dedup_cross_from(chs, k, i + 1,
                      IF ref # "" THEN seen \cup {ref} ELSE seen,
                      Append(kept, fig), done, removed)

\* The mutant of dedup_cross_chunk: the seen set is reset for every chunk.
dedup_cross_chunk_per_chunk(chs) ==
    LET one(k) == dedup_cross_from(<<chs[k]>>, 1, 1, {}, <<>>, <<>>, 0)
        RECURSIVE removed_in(_)
        removed_in(k) == IF k > Len(chs) THEN 0 ELSE one(k).removed + removed_in(k + 1)
    IN  [chunks |-> [k \in 1..Len(chs) |-> one(k).chunks[1]], removed |-> removed_in(1)]

\* The mutant of dedup_cross_chunk: the chunks are scanned from the last to the
\* first, so the last occurrence wins.
dedup_cross_chunk_last_wins(chs) ==
    LET reversed(q) == [k \in 1..Len(q) |-> q[Len(q) + 1 - k]]
        r == dedup_cross_from(reversed(chs), 1, 1, {}, <<>>, <<>>, 0)
    IN  [chunks |-> reversed(r.chunks), removed |-> r.removed]

dedup_cross_chunk(chs) == dedup_cross_from(chs, 1, 1, {}, <<>>, <<>>, 0)

\* inject_fallback_figures from the k-th sidecar on.  unassignable collects the
\* refs of the "no chunk found" warnings.
RECURSIVE inject_fallback_from(_, _, _, _, _, _)
inject_fallback_from(files, k, chs, assigned_refs, injected, unassignable) ==
    IF k > Len(files)
    THEN [chunks |-> chs, injected |-> injected, unassignable |-> unassignable]
    ELSE LET meta == files[k].meta
             ref == meta.picture_ref
             covering == {i \in 1..Len(chs) : meta.page_number \in chs[i].page_numbers}
         IN  IF ref = "" \/ ref \in assigned_refs
             THEN inject_fallback_from(files, k + 1, chs, assigned_refs, injected,
                                       unassignable)
             ELSE IF rstrip(lstrip(meta.caption), Whitespace) # <<>>
             THEN inject_fallback_from(files, k + 1, chs, assigned_refs, injected,
                                       unassignable)
             ELSE IF covering = {}
             THEN inject_fallback_from(files, k + 1, chs, assigned_refs, injected,
                                       unassignable \cup {ref})
             ELSE LET target_idx == CHOOSE i \in covering : \A j \in covering : i <= j
                  IN  inject_fallback_from(files, k + 1,
                          [chs EXCEPT ![target_idx].figures =
                              Append(@, [caption |-> <<>>,
                                         picture_ref |-> ref,
                                         image_file |-> image_path(files[k].name)])],
                          assigned_refs \cup {ref}, injected + 1, unassignable)

\* The mutant of inject_fallback_figures: the chunks are searched from the last
\* to the first, so the last chunk that covers the page is the target.
inject_fallback_figures_last_chunk(chs, dir) ==
    LET reversed(q) == [k \in 1..Len(q) |-> q[Len(q) + 1 - k]]
        r == inject_fallback_from(sorted_files(dir), 1, reversed(chs),
                 UNION {figure_refs(chs[k].figures) : k \in 1..Len(chs)}, 0, {})
    IN  [r EXCEPT !.chunks = reversed(@)]

\* The mutant of inject_fallback_figures: assigned_refs starts empty.
inject_fallback_figures_unassigned(chs, dir) ==
    inject_fallback_from(sorted_files(dir), 1, chs, {}, 0, {})

inject_fallback_figures(chs, dir) ==
    inject_fallback_from(sorted_files(dir), 1, chs,
        UNION {figure_refs(chs[k].figures) : k \in 1..Len(chs)}, 0, {})

\* The mutant of postprocess_chunks: resolve_image_files runs before
\* fix_figure_refs, so an entry injected by the fuzzy pass is left without its
\* image_file until the next run.
postprocess_chunks_resolve_first(chs, pics, dir) ==
    LET resolved == resolve_image_files(chs, dir)
        fixed == fix_figure_refs(resolved.chunks, pics)
        deduped == dedup_per_chunk(fixed.chunks)
        crossed == dedup_cross_chunk(deduped)
        fallback == inject_fallback_figures(crossed.chunks, dir)
        again == IF fallback.injected # 0 THEN dedup_cross_chunk(fallback.chunks)
                 ELSE [chunks |-> fallback.chunks, removed |-> 0]
    IN  [chunks |-> again.chunks,
         stats |-> [fuzzy_injected |-> fixed.injected,
                    fallback_injected |-> fallback.injected,
                    image_files_resolved |-> resolved.resolved,
                    cross_chunk_removed |-> crossed.removed + again.removed,
                    unassignable |-> fallback.unassignable],
         passes |-> [start |-> chs, fixed |-> fixed, resolved |-> resolved,
                     deduped |-> deduped, crossed |-> crossed,
                     fallback |-> fallback, again |-> again]]

\* postprocess_chunks: the passes in order, and the stats it returns
\* (unassignable: the refs inject_fallback_figures warned about).
postprocess_chunks(chs, pics, dir) ==
    LET fixed == fix_figure_refs(chs, pics)
        resolved == resolve_image_files(fixed.chunks, dir)
        deduped == dedup_per_chunk(resolved.chunks)
        crossed == dedup_cross_chunk(deduped)
        fallback == inject_fallback_figures(crossed.chunks, dir)
        again == IF fallback.injected # 0 THEN dedup_cross_chunk(fallback.chunks)
                 ELSE [chunks |-> fallback.chunks, removed |-> 0]
    IN  [chunks |-> again.chunks,
         stats |-> [fuzzy_injected |-> fixed.injected,
                    fallback_injected |-> fallback.injected,
                    image_files_resolved |-> resolved.resolved,
                    cross_chunk_removed |-> crossed.removed + again.removed,
                    unassignable |-> fallback.unassignable],
         passes |-> [start |-> chs, fixed |-> fixed, resolved |-> resolved,
                     deduped |-> deduped, crossed |-> crossed,
                     fallback |-> fallback, again |-> again]]

---------------------------------------------------------------------------
(* The post-processing of one document: build_chunks has returned, then      *)
(* postprocess_chunks runs, and runs again on its own result.                *)

\* Bounds: the number of chunks, and of runs of postprocess_chunks.
MaxChunks == 2
MaxRuns == 2

PicRefs == <<"#/pictures/0", "#/pictures/1">>
TableRefs == <<"#/tables/0", "#/tables/1", "#/tables/2">>
CaptionFig == <<"F", "i", "g", ".", " ", "1">>
CaptionTab == <<"T", "a", "b", " ", "1">>
Captions == {<<>>, CaptionFig}
ChunkTexts == {"near the caption", "cites the caption"}
ChunkPages == {{1}, {1, 2}}

\* The PictureItems of a document: self_ref, caption_text(doc) or "", and
\* get_page_numbers(pic)[0]; the i-th picture is on page i.
PictureLists ==
    {[i \in 1..Len(PicRefs) |-> [self_ref |-> PicRefs[i], caption |-> c[i], page |-> i]] :
        c \in [1..Len(PicRefs) -> Captions]}

\* The TableItems of the document: two tables with one caption, one without.
TableItems == <<[self_ref |-> TableRefs[1], caption |-> CaptionTab],
                [self_ref |-> TableRefs[2], caption |-> CaptionTab],
                [self_ref |-> TableRefs[3], caption |-> <<>>]>>

\* table_slugs[table.self_ref] of extract_tables, for the i-th table
table_csv(tbls, i) ==
    <<"t", "a", "b", "l", "e", "s", "/">>
        \o (IF tbls[i].caption # <<>> THEN make_slug(tbls[i].caption)
            ELSE <<"t", "a", "b", "l", "e", "_">> \o str(i))
        \o <<".", "c", "s", "v">>

\* The entries build_chunks appends for a PictureItem and for a TableItem.
figure_entry(pic) ==
    [caption |-> pic.caption, picture_ref |-> pic.self_ref, image_file |-> <<>>]
table_entry(tbls, i) ==
    [caption |-> tbls[i].caption, csv_file |-> table_csv(tbls, i)]

\* An increasing list of the members of a set of indices.
RECURSIVE ascending(_)
ascending(S) ==
    IF S = {} THEN <<>>
    ELSE LET m == CHOOSE x \in S : \A y \in S : x <= y
         IN  <<m>> \o ascending(S \ {m})

\* The lists without repetition over a set of indices.
RECURSIVE arrangements(_)
arrangements(S) ==
    {<<>>} \cup UNION {{<<x>> \o r : r \in arrangements(S \ {x})} : x \in S}

\* The chunks build_chunks can return: the figures of a chunk are the pictures
\* among its doc_items, once each, in document order; its tables are the
\* tables among its doc_items, once each.  headings and item_types are
\* meta.headings and the type names of the doc_items.
FigureChunks(pics) ==
    {[text |-> t, headings |-> <<"Results">>,
      item_types |-> <<"TextItem">> \o [i \in 1..Cardinality(S) |-> "PictureItem"],
      page_numbers |-> pg,
      figures |-> [i \in 1..Len(ascending(S)) |-> figure_entry(pics[ascending(S)[i]])],
      tables |-> <<>>] :
        t \in ChunkTexts, pg \in ChunkPages, S \in SUBSET (1..Len(pics))}

TableChunks ==
    {[text |-> "", headings |-> <<>>,
      item_types |-> [i \in 1..Len(a) |-> "TableItem"],
      page_numbers |-> {1}, figures |-> <<>>,
      tables |-> [i \in 1..Len(a) |-> table_entry(TableItems, a[i])]] :
        a \in arrangements(1..Len(TableItems))}

\* The chunk lists of a document over a set of chunks: every list of one or
\* two chunks, and those lists of up to MaxChunks chunks whose later chunks
\* repeat the second.
ChunkLists(S) ==
    {<<a>> : a \in S}
    \cup {<<a, b>> \o Repeat(<<b>>, n) : a \in S, b \in S, n \in 0..(MaxChunks - 2)}

\* Either the figure side of the document varies, rapidfuzz is installed and
\* no chunk holds a table, or the table side varies over a document with one
\* uncaptioned picture, with and without rapidfuzz.
InitPost ==
    /\ IdleBatch
    /\ IdleClassifier
    /\ IdleExtract
    /\ pc_post = "chunks"
    /\ stats = <<>>
    /\ passes = <<>>
    /\ \/ /\ fuzz = TRUE
          /\ pictures \in PictureLists
          /\ chunks \in ChunkLists(FigureChunks(pictures))
       \/ /\ fuzz \in BOOLEAN
          /\ pictures = <<[self_ref |-> PicRefs[1], caption |-> <<>>, page |-> 1]>>
          /\ chunks \in ChunkLists(TableChunks)
    /\ \E ok \in [1..Len(pictures) -> BOOLEAN] : images_dir = extract_pictures(pictures, ok)
    /\ built = chunks
    /\ IdleMain

\* The per-document outputs of pdf_processor.py that are single files.
DOCUMENT_JSON == "document.json"
CHUNKS_JSON == "chunks.json"

\* One call of postprocess_chunks on the in-memory chunks.
Postprocess ==
    /\ pc_post = "chunks"
    /\ Len(stats) < MaxRuns
    /\ LET r == postprocess_chunks(chunks, pictures, images_dir)
       IN  /\ chunks' = r.chunks
           /\ stats' = Append(stats, r.stats)
           /\ passes' = Append(passes, r.passes)
    /\ writes' = Append(writes, CHUNKS_JSON)
    /\ UNCHANGED <<clsVars, exVars, batchVars, pictures, images_dir, fuzz, built, pc_post>>
    /\ UNCHANGED <<tables, doc_chunks, table_slugs, tables_dir, run_stats, printed>>

NextPost == Postprocess

SpecPost == InitPost /\ [][NextPost]_vars

---------------------------------------------------------------------------
(* scripts/pdf_processor.py: extract_tables, build_chunks and __main__ *)

\* extract_tables: table_slugs is filled for every table before the try block
\* (line 185); ok[i] is whether the try block of table i returned, a failure
\* being export_to_dataframe raising before the csv file is written.
extract_tables(tbls, ok) ==
    LET done == {i \in 1..Len(tbls) : ok[i]}
    IN  [table_slugs |-> [ref \in {tbls[i].self_ref : i \in 1..Len(tbls)} |->
                             table_csv(tbls, CHOOSE i \in 1..Len(tbls) : tbls[i].self_ref = ref)],
         files |-> {table_csv(tbls, i) : i \in done},
         stats |-> [total |-> Len(tbls), ok |-> Cardinality(done),
                    fail |-> Len(tbls) - Cardinality(done)]]

\* extract_pictures' return value
picture_stats(pics, ok) ==
    LET done == {i \in 1..Len(pics) : ok[i]}
    IN  [total |-> Len(pics), ok |-> Cardinality(done), fail |-> Len(pics) - Cardinality(done)]

\* caption_to_pic_ref.get(cap_text): "" stands for None
caption_lookup(pics, cap_text) ==
    LET items == caption_to_pic_ref(pics)
        hits == {k \in 1..Len(items) : items[k].cap = cap_text}
    IN  IF hits = {} THEN "" ELSE items[CHOOSE k \in hits : TRUE].ref

\* The loop over doc_items (lines 351-376) from item k on; entry holds the
\* figures and tables appended so far.
RECURSIVE scan_doc_items(_, _, _, _, _, _, _)
scan_doc_items(items, k, pics, slugs, seen_pic_refs, seen_table_refs, entry) ==
    IF k > Len(items) THEN entry
    ELSE LET it == items[k]
             pic_ref == caption_lookup(pics, it.text)
         IN  IF it.kind = "PictureItem"
             THEN IF it.self_ref \notin seen_pic_refs
                  THEN scan_doc_items(items, k + 1, pics, slugs,
                           seen_pic_refs \cup {it.self_ref}, seen_table_refs,
                           [entry EXCEPT !.figures = Append(@,
                               [caption |-> it.caption, picture_ref |-> it.self_ref,
                                image_file |-> <<>>])])
                  ELSE scan_doc_items(items, k + 1, pics, slugs,
                           seen_pic_refs, seen_table_refs, entry)
             ELSE IF it.kind = "TableItem"
             THEN IF it.self_ref \notin seen_table_refs
                  THEN scan_doc_items(items, k + 1, pics, slugs,
                           seen_pic_refs, seen_table_refs \cup {it.self_ref},
                           [entry EXCEPT !.tables = Append(@,
                               [caption |-> it.caption,
                                csv_file |-> IF it.self_ref \in DOMAIN slugs
                                             THEN slugs[it.self_ref] ELSE <<>>])])
                  ELSE scan_doc_items(items, k + 1, pics, slugs,
                           seen_pic_refs, seen_table_refs, entry)
             ELSE IF it.label = "caption" /\ pic_ref # "" /\ pic_ref \notin seen_pic_refs
                  THEN scan_doc_items(items, k + 1, pics, slugs,
                           seen_pic_refs \cup {pic_ref}, seen_table_refs,
                           [entry EXCEPT !.figures = Append(@,
                               [caption |-> it.text, picture_ref |-> pic_ref,
                                image_file |-> <<>>])])
                  ELSE scan_doc_items(items, k + 1, pics, slugs,
                           seen_pic_refs, seen_table_refs, entry)

\* build_chunks: one entry per chunk of the chunker; a chunk without meta
\* keeps the empty lists.
build_chunks(dchunks, pics, slugs) ==
    [c \in 1..Len(dchunks) |->
        LET entry == [text |-> dchunks[c].text, headings |-> <<>>, item_types |-> <<>>,
                      page_numbers |-> {}, figures |-> <<>>, tables |-> <<>>]
            items == dchunks[c].doc_items
        IN  IF ~dchunks[c].has_meta THEN entry
            ELSE scan_doc_items(items, 1, pics, slugs, {}, {},
                     [entry EXCEPT
                         !.item_types = [k \in 1..Len(items) |-> items[k].kind],
                         !.page_numbers = {items[k].page : k \in 1..Len(items)}])]

\* build_chunks' stats
chunk_stats(chs) ==
    [total |-> Len(chs),
     with_figures |-> Cardinality({c \in 1..Len(chs) : Len(chs[c].figures) > 0}),
     with_tables |-> Cardinality({c \in 1..Len(chs) : Len(chs[c].tables) > 0})]


\* Bound: the most doc_items in the first chunk.
MaxItems == 3

\* The document of the runs of __main__: a captioned picture on page 1, an
\* uncaptioned one on page 2, and the three tables.
MainPictures == <<[self_ref |-> PicRefs[1], caption |-> CaptionFig, page |-> 1],
                  [self_ref |-> PicRefs[2], caption |-> <<>>, page |-> 2]>>

PicItem(i) == [kind |-> "PictureItem", self_ref |-> MainPictures[i].self_ref,
               caption |-> MainPictures[i].caption, label |-> "picture",
               text |-> <<>>, page |-> MainPictures[i].page]
TabItem(i) == [kind |-> "TableItem", self_ref |-> TableItems[i].self_ref,
               caption |-> TableItems[i].caption, label |-> "table",
               text |-> <<>>, page |-> 1]
\* A caption-labelled text item with the text of the picture's caption, and a
\* paragraph with the same text.
CaptionItem == [kind |-> "TextItem", self_ref |-> "#/texts/0", caption |-> <<>>,
                label |-> "caption", text |-> CaptionFig, page |-> 1]
ParagraphItem == [kind |-> "TextItem", self_ref |-> "#/texts/1", caption |-> <<>>,
                  label |-> "text", text |-> CaptionFig, page |-> 2]
DocItems == {PicItem(i) : i \in 1..Len(MainPictures)}
            \cup {TabItem(i) : i \in 1..Len(TableItems)}
            \cup {CaptionItem, ParagraphItem}

\* meta.doc_items of the first chunk: nothing, one item, or two items followed
\* by repetitions of the first.
DocItemLists ==
    {<<>>} \cup {<<x>> : x \in DocItems}
    \cup {<<x, y>> \o Repeat(<<x>>, n) : x \in DocItems, y \in DocItems, n \in 0..(MaxItems - 2)}

\* What the chunker yields: a first chunk, alone or followed by a chunk
\* without meta or by a chunk with a table and the captioned picture.
MainChunkLists ==
    {<<[text |-> "cites the caption", has_meta |-> TRUE, doc_items |-> items]>> \o rest :
        items \in DocItemLists,
        rest \in {<<>>,
                  <<[text |-> "near the caption", has_meta |-> FALSE, doc_items |-> <<>>]>>,
                  <<[text |-> "cites the caption", has_meta |-> TRUE,
                     doc_items |-> <<TabItem(1), PicItem(1)>>]>>}}

InitMain ==
    /\ IdleBatch
    /\ IdleClassifier
    /\ IdleExtract
    /\ pictures = MainPictures
    /\ tables = TableItems
    /\ doc_chunks \in MainChunkLists
    /\ fuzz = TRUE
    /\ images_dir = {}
    /\ built = <<>>
    /\ chunks = <<>>
    /\ stats = <<>>
    /\ passes = <<>>
    /\ pc_post = "start"
    /\ table_slugs = <<>>
    /\ tables_dir = {}
    /\ run_stats = NoStats
    /\ writes = <<>>
    /\ printed = <<>>

\* doc, page_count = convert_pdf(SOURCE) returns
ConvertPdf ==
    /\ pc_post = "start"
    /\ pc_post' = "converted"
    /\ UNCHANGED <<clsVars, exVars, batchVars, mainVars, pictures, images_dir, fuzz, built, chunks, stats, passes>>

\* table_slugs, table_stats = extract_tables(...): a table's export may raise,
\* which is caught per table.
ExtractTables ==
    /\ pc_post = "converted"
    /\ \E ok \in [1..Len(tables) -> BOOLEAN] :
        LET r == extract_tables(tables, ok)
        IN  /\ table_slugs' = r.table_slugs
            /\ tables_dir' = r.files
            /\ run_stats' = [run_stats EXCEPT !.tables = r.stats]
    /\ pc_post' = "tables"
    /\ UNCHANGED <<clsVars, exVars, batchVars, ppVars_but_pc, tables, doc_chunks, writes, printed>>

\* picture_stats = extract_pictures(...): a picture's extraction may raise,
\* which is caught per picture.
ExtractPictures ==
    /\ pc_post = "tables"
    /\ \E ok \in [1..Len(pictures) -> BOOLEAN] :
        /\ images_dir' = extract_pictures(pictures, ok)
        /\ run_stats' = [run_stats EXCEPT !.pictures = picture_stats(pictures, ok)]
    /\ pc_post' = "pictures"
    /\ UNCHANGED <<clsVars, exVars, batchVars, pictures, fuzz, built, chunks, stats, passes>>
    /\ UNCHANGED <<tables, doc_chunks, table_slugs, tables_dir, writes, printed>>

\* save_document_json(doc, OUT_DIR)
SaveDocumentJson ==
    /\ pc_post = "pictures"
    /\ writes' = Append(writes, DOCUMENT_JSON)
    /\ pc_post' = "json"
    /\ UNCHANGED <<clsVars, exVars, batchVars, ppVars_but_pc>>
    /\ UNCHANGED <<tables, doc_chunks, table_slugs, tables_dir, run_stats, printed>>

\* chunks, chunk_stats = build_chunks(...), which writes chunks.json
BuildChunks ==
    /\ pc_post = "json"
    /\ built' = build_chunks(doc_chunks, pictures, table_slugs)
    /\ chunks' = built'
    /\ run_stats' = [run_stats EXCEPT !.chunks = chunk_stats(built')]
    /\ writes' = Append(writes, CHUNKS_JSON)
    /\ pc_post' = "chunks"
    /\ UNCHANGED <<clsVars, exVars, batchVars, pictures, images_dir, fuzz, stats, passes>>
    /\ UNCHANGED <<tables, doc_chunks, table_slugs, tables_dir, printed>>

\* pp_stats = postprocess_chunks(chunks, doc, OUT_DIR), called once
MainPostprocess ==
    /\ Len(stats) = 0
    /\ Postprocess

\* print_summary(...), then the finally clause restores stdout
PrintSummary ==
    /\ pc_post = "chunks"
    /\ Len(stats) = 1
    /\ printed' = Append(printed, [tables |-> run_stats.tables,
                                    pictures |-> run_stats.pictures,
                                    chunks |-> run_stats.chunks,
                                    pp |-> stats[1]])
    /\ pc_post' = "summary"
    /\ UNCHANGED <<clsVars, exVars, batchVars, ppVars_but_pc>>
    /\ UNCHANGED <<tables, doc_chunks, table_slugs, tables_dir, run_stats, writes>>

\* The call the run has reached raises (convert_pdf on an unreadable file,
\* mkdir or write_text on a full disk, the chunker, ...): nothing inside the
\* try of line 651 catches it, the finally clause restores stdout and the
\* exception ends the run.
StepRaises ==
    /\ \/ pc_post \in {"start", "converted", "tables", "pictures", "json"}
       \/ pc_post = "chunks" /\ Len(stats) = 0
    /\ pc_post' = "raised"
    /\ UNCHANGED <<clsVars, exVars, batchVars, mainVars, pictures, images_dir, fuzz, built, chunks, stats, passes>>

NextMain ==
    \/ ConvertPdf
    \/ ExtractTables
    \/ ExtractPictures
    \/ SaveDocumentJson
    \/ BuildChunks
    \/ MainPostprocess
    \/ PrintSummary
    \/ StepRaises

SpecMain == InitMain /\ [][NextMain]_vars

\* The run under the scheduling of a sequential program: a step that can be
\* taken is taken.
SpecMainFair == SpecMain /\ WF_vars(NextMain)

---------------------------------------------------------------------------
(* The entry points together *)

Init == InitClassifier \/ InitExtract \/ InitImages \/ InitBatch \/ InitPost \/ InitMain

Next == NextClassifier \/ NextBatch \/ NextPost \/ NextMain

Spec == Init /\ [][Next]_vars

---------------------------------------------------------------------------
(* Properties of postprocess_chunks *)

Runs == Len(stats)
ChunksWith(ref) == {k \in 1..Len(chunks) : ref \in figure_refs(chunks[k].figures)}
AllFigureRefs == UNION {figure_refs(chunks[k].figures) : k \in 1..Len(chunks)}

\* C1: the second run of postprocess_chunks on the result of the first, with
\* the same images, reports no fuzzy injection, no fallback injection and no
\* cross-chunk removal.
C1_SecondRunReportsNothing ==
    Runs >= 2 =>
        /\ stats[2].fuzzy_injected = 0
        /\ stats[2].fallback_injected = 0
        /\ stats[2].cross_chunk_removed = 0

\* C2: after postprocess_chunks every picture_ref found in a figures list is
\* in exactly one chunk, and an image reported unassignable is in none.
C2_EachRefInOneChunk ==
    Runs >= 1 =>
        /\ \A ref \in AllFigureRefs : Cardinality(ChunksWith(ref)) = 1
        /\ \A ref \in stats[Runs].unassignable : ChunksWith(ref) = {}

\* A run removed a cross-chunk duplicate, kept the reference in one chunk, and
\* left another image unassignable.
C2_Witness ==
    /\ Runs = 1
    /\ stats[1].cross_chunk_removed > 0
    /\ stats[1].unassignable # {}
    /\ AllFigureRefs # {}

\* C3: after postprocess_chunks no chunk holds two figure entries with one
\* picture_ref or two table entries with one csv_file.
C3_NoDuplicateInChunk ==
    Runs >= 1 =>
        \A k \in 1..Len(chunks) :
            /\ \A i, j \in 1..Len(chunks[k].figures) :
                   chunks[k].figures[i].picture_ref = chunks[k].figures[j].picture_ref
                       => i = j
            /\ \A i, j \in 1..Len(chunks[k].tables) :
                   chunks[k].tables[i].csv_file = chunks[k].tables[j].csv_file => i = j

\* A chunk built with two tables of one csv_file, into which the fallback pass
\* injected a figure, after the run.
C3_Witness ==
    /\ Runs = 1
    /\ stats[1].fallback_injected > 0
    /\ \E k \in 1..Len(chunks) :
        /\ \E i, j \in 1..Len(built[k].tables) :
               i # j /\ built[k].tables[i].csv_file = built[k].tables[j].csv_file
        /\ Len(chunks[k].figures) = 1
        /\ Len(chunks[k].tables) >= 1


---------------------------------------------------------------------------
(* Properties of build_chunks and of a run of __main__ *)

BuildReturned == Len(doc_chunks) > 0 /\ Len(built) = Len(doc_chunks)

\* The picture a structural item stands for ("" for none), and the table file
\* a table item stands for (<<>> for the other items).
ItemPicture(it) ==
    IF it.kind = "PictureItem" THEN it.self_ref
    ELSE IF it.kind = "TextItem" /\ it.label = "caption"
              /\ \E i \in 1..Len(pictures) : pictures[i].caption = it.text
         THEN (CHOOSE r \in {pictures[i].self_ref : i \in 1..Len(pictures)} :
                  \E i \in 1..Len(pictures) :
                      pictures[i].self_ref = r /\ pictures[i].caption = it.text)
    ELSE ""
ItemTable(it) ==
    IF it.kind = "TableItem" /\ it.self_ref \in DOMAIN table_slugs
    THEN table_slugs[it.self_ref] ELSE <<>>
FirstPicture(c, ref) ==
    CHOOSE k \in 1..Len(doc_chunks[c].doc_items) :
        /\ ItemPicture(doc_chunks[c].doc_items[k]) = ref
        /\ \A j \in 1..(k - 1) : ItemPicture(doc_chunks[c].doc_items[j]) # ref
FirstTable(c, path) ==
    CHOOSE k \in 1..Len(doc_chunks[c].doc_items) :
        /\ ItemTable(doc_chunks[c].doc_items[k]) = path
        /\ \A j \in 1..(k - 1) : ItemTable(doc_chunks[c].doc_items[j]) # path

\* C15: in what build_chunks returns, no chunk has two figure entries with one
\* picture_ref nor two table entries with one csv_file path, and the entries
\* stand in the order in which their items first occur in the chunk.
C15_BuiltRefsOncePerChunk ==
    BuildReturned =>
        \A c \in 1..Len(built) :
            /\ \A i \in 1..Len(built[c].figures) : \A j \in (i + 1)..Len(built[c].figures) :
                   /\ built[c].figures[i].picture_ref # built[c].figures[j].picture_ref
                   /\ FirstPicture(c, built[c].figures[i].picture_ref)
                          < FirstPicture(c, built[c].figures[j].picture_ref)
            /\ \A i \in 1..Len(built[c].tables) : \A j \in (i + 1)..Len(built[c].tables) :
                   /\ built[c].tables[i].csv_file # built[c].tables[j].csv_file
                   /\ FirstTable(c, built[c].tables[i].csv_file)
                          < FirstTable(c, built[c].tables[j].csv_file)

\* C16: the csv_file of every table entry, in what build_chunks returns and in
\* what postprocess_chunks leaves, is a non-empty path of a file that
\* extract_tables wrote.
C16_TablePathsWereExported ==
    BuildReturned =>
        \A c \in 1..Len(chunks) : \A i \in 1..Len(chunks[c].tables) :
            /\ chunks[c].tables[i].csv_file # <<>>
            /\ chunks[c].tables[i].csv_file \in tables_dir
            /\ built[c].tables[i].csv_file \in tables_dir

\* The pictures extract_pictures left a record of.
ExtractedRefs == {f.meta.picture_ref : f \in images_dir}

\* C17: after postprocess_chunks, a figure entry that build_chunks had not put
\* in its chunk (one that fix_figure_refs or inject_fallback_figures
\* injected) names a picture that extract_pictures extracted.
C17_InjectedRefsWereExtracted ==
    (BuildReturned /\ Len(stats) > 0) =>
        \A c \in 1..Len(chunks) : \A i \in 1..Len(chunks[c].figures) :
            chunks[c].figures[i].picture_ref \notin figure_refs(built[c].figures)
                => chunks[c].figures[i].picture_ref \in ExtractedRefs

\* C19: in a run no output path is written twice.
C19_OutputsWrittenOnce ==
    \A i \in 1..Len(writes) : \A j \in (i + 1)..Len(writes) : writes[i] # writes[j]

\* C20: every run of __main__ eventually prints its summary.
C20_SummaryAlwaysReported == <>(Len(printed) > 0)

---------------------------------------------------------------------------
(* Properties of the single passes of postprocess_chunks.  passes[r] holds   *)
(* what each pass of the r-th run was given and what it returned.            *)

\* The number of entries of a figure list that reference ref.
Occurrences(figs, ref) == Cardinality({i \in 1..Len(figs) : figs[i].picture_ref = ref})

\* Whether chunk k holds more entries for ref after a pass than before it.
InjectedInto(before, after, k, ref) ==
    Occurrences(after[k].figures, ref) > Occurrences(before[k].figures, ref)

\* C21: with the fuzzy matcher available, fix_figure_refs injects an entry for
\* picture p into chunk c if and only if p has a non-empty caption, c did not
\* already reference p, and partial_ratio(caption of p, text of c) is at least
\* the threshold; an uncaptioned picture is never injected; the value returned
\* is the number of entries injected.
C21_FuzzyInjectsIffCaptionMatches ==
    \A r \in 1..Len(passes) :
        fuzz =>
            LET before == passes[r].start
                after == passes[r].fixed.chunks
            IN  /\ Len(after) = Len(before)
                /\ \A k \in 1..Len(before), i \in 1..Len(pictures) :
                       InjectedInto(before, after, k, pictures[i].self_ref)
                       <=> /\ pictures[i].caption # <<>>
                           /\ pictures[i].self_ref \notin figure_refs(before[k].figures)
                           /\ partial_ratio(pictures[i].caption, before[k].text)
                                  >= FUZZY_THRESHOLD
                /\ passes[r].fixed.injected
                       = count_figures(after) - count_figures(before)


\* The saved image records (sidecars of out_dir/images) that name ref.
RecordsOf(ref) == {f \in images_dir : f.meta.picture_ref = ref /\ ref # ""}

\* The entries (chunk, position) that have no image_file before a pass and have
\* one after it.
ReceivedPath(before, after) ==
    {e \in UNION {{<<k, i>> : i \in 1..Len(before[k].figures)} : k \in 1..Len(before)} :
        /\ before[e[1]].figures[e[2]].image_file = <<>>
        /\ after[e[1]].figures[e[2]].image_file # <<>>}

\* C22: after resolve_image_files every figure entry whose picture_ref has a
\* saved image record carries the image_file of that record; an entry that
\* already had an image_file keeps it; the entries are otherwise untouched; the
\* value returned is the number of entries that received a path in this call.
C22_ResolveAttachesSavedImage ==
    \A r \in 1..Len(passes) :
        LET before == passes[r].fixed.chunks
            after == passes[r].resolved.chunks
        IN  /\ Len(after) = Len(before)
            /\ \A k \in 1..Len(before) :
                   /\ Len(after[k].figures) = Len(before[k].figures)
                   /\ \A i \in 1..Len(before[k].figures) :
                          LET b == before[k].figures[i]
                              a == after[k].figures[i]
                          IN  /\ a.picture_ref = b.picture_ref
                              /\ a.caption = b.caption
                              /\ b.image_file # <<>> => a.image_file = b.image_file
                              /\ RecordsOf(b.picture_ref) # {} =>
                                     \E f \in RecordsOf(b.picture_ref) :
                                         a.image_file = image_path(f.name)
                              /\ RecordsOf(b.picture_ref) = {} =>
                                     a.image_file = b.image_file
            /\ passes[r].resolved.resolved = Cardinality(ReceivedPath(before, after))

\* A second run whose resolve_image_files met entries resolved by the first run
\* and an entry whose picture has no saved record.
C22_Witness ==
    /\ Len(passes) = 2
    /\ passes[1].resolved.resolved > 0
    /\ \E k \in 1..Len(passes[2].fixed.chunks) :
           \E i \in 1..Len(passes[2].fixed.chunks[k].figures) :
               passes[2].fixed.chunks[k].figures[i].image_file # <<>>
    /\ \E k \in 1..Len(passes[1].resolved.chunks) :
           \E i \in 1..Len(passes[1].resolved.chunks[k].figures) :
               passes[1].resolved.chunks[k].figures[i].image_file = <<>>


\* The chunks of a list that reference ref, and the refs a list references.
Holders(chs, ref) == {k \in 1..Len(chs) : ref \in figure_refs(chs[k].figures)}
RefsOf(chs) == UNION {figure_refs(chs[k].figures) : k \in 1..Len(chs)}

\* Whether short is long with some of its entries left out.
IsSubSeq(short, long) ==
    \E S \in SUBSET (1..Len(long)) :
        short = [i \in 1..Cardinality(S) |-> long[ascending(S)[i]]]

\* The calls of dedup_cross_chunk in the r-th run: what each was given and what
\* it returned.  The second call is made only after a fallback injection.
CrossDedupCalls(r) ==
    {[before |-> passes[r].deduped, out |-> passes[r].crossed]}
    \cup (IF passes[r].fallback.injected # 0
          THEN {[before |-> passes[r].fallback.chunks, out |-> passes[r].again]}
          ELSE {})

\* C23: after dedup_cross_chunk every non-empty picture_ref of the input is
\* referenced by exactly the lowest-index chunk that referenced it and by no
\* later chunk; the entries kept in a chunk are in their input order; the value
\* returned is the number of entries removed.
C23_CrossDedupFirstChunkWins ==
    \A r \in 1..Len(passes) :
        \A c \in CrossDedupCalls(r) :
            LET before == c.before
                after == c.out.chunks
            IN  /\ Len(after) = Len(before)
                /\ \A ref \in RefsOf(before) :
                       /\ Holders(after, ref) # {}
                       /\ \A k \in Holders(after, ref) :
                              /\ k \in Holders(before, ref)
                              /\ \A j \in Holders(before, ref) : k <= j
                /\ \A k \in 1..Len(before) :
                       IsSubSeq(after[k].figures, before[k].figures)
                /\ c.out.removed = count_figures(before) - count_figures(after)

\* A call of dedup_cross_chunk on two chunks that reference the same picture,
\* the second of which references another picture as well.
C23_Witness ==
    \E r \in 1..Len(passes) :
        LET before == passes[r].deduped
        IN  /\ passes[r].crossed.removed > 0
            /\ \E ref \in RefsOf(before) : Cardinality(Holders(before, ref)) > 1
            /\ \E k \in 1..Len(before) :
                   /\ Len(before[k].figures) > 1
                   /\ Len(passes[r].crossed.chunks[k].figures) = 1


\* The chunks whose page_numbers contain the page of an image record.
Covering(chs, f) == {k \in 1..Len(chs) : f.meta.page_number \in chs[k].page_numbers}

\* An image record the fallback pass is for: empty caption, and no figure
\* entry in any chunk.
Unplaced(chs, f) ==
    /\ f.meta.picture_ref # ""
    /\ f.meta.caption = <<>>
    /\ f.meta.picture_ref \notin RefsOf(chs)

\* C24: inject_fallback_figures appends, for every extracted image with an
\* empty caption and no figure entry in any chunk, exactly one entry (empty
\* caption, the image's file attached) to the lowest-index chunk whose
\* page_numbers contain the image's page, and none when no chunk covers the
\* page; captioned images and referenced images get no entry; the entries that
\* were there stay; the value returned is the number of entries injected.
C24_FallbackInjectsOnceByPage ==
    \A r \in 1..Len(passes) :
        LET before == passes[r].crossed.chunks
            after == passes[r].fallback.chunks
        IN  /\ Len(after) = Len(before)
            /\ \A k \in 1..Len(before) :
                   /\ Len(after[k].figures) >= Len(before[k].figures)
                   /\ SubSeq(after[k].figures, 1, Len(before[k].figures))
                          = before[k].figures
                   /\ \A i \in (Len(before[k].figures) + 1)..Len(after[k].figures) :
                          \E f \in images_dir :
                              after[k].figures[i]
                                  = [caption |-> <<>>,
                                     picture_ref |-> f.meta.picture_ref,
                                     image_file |-> image_path(f.name)]
            /\ \A f \in images_dir :
                   \A k \in 1..Len(before) :
                       Occurrences(after[k].figures, f.meta.picture_ref)
                           - Occurrences(before[k].figures, f.meta.picture_ref)
                       = IF /\ Unplaced(before, f)
                            /\ k \in Covering(before, f)
                            /\ \A j \in Covering(before, f) : k <= j
                         THEN 1 ELSE 0
            /\ passes[r].fallback.injected
                   = count_figures(after) - count_figures(before)

\* A run whose fallback pass injected an uncaptioned image into the second
\* chunk, the first not covering its page, and passed over a captioned image
\* that no chunk referenced.
C24_Witness ==
    \E r \in 1..Len(passes) :
        LET before == passes[r].crossed.chunks
            after == passes[r].fallback.chunks
        IN  /\ Len(before) = 2
            /\ Len(after[2].figures) > Len(before[2].figures)
            /\ \E f \in images_dir :
                   /\ f.meta.caption # <<>>
                   /\ f.meta.picture_ref \notin RefsOf(before)

\* A run whose fallback pass found an uncaptioned, unreferenced image on a
\* page that no chunk covers.
C24_WitnessUncovered ==
    \E r \in 1..Len(passes) :
        \E f \in images_dir :
            /\ Unplaced(passes[r].crossed.chunks, f)
            /\ Covering(passes[r].crossed.chunks, f) = {}


---------------------------------------------------------------------------
(* Properties of postprocess_chunks as a whole *)

\* The csv files a table list names.
CsvFiles(tbls) == {tbls[i].csv_file : i \in 1..Len(tbls)}

\* C25: postprocess_chunks changes the reference lists only: the number and
\* order of the chunks and each chunk's text, headings, item_types and
\* page_numbers are those of its input; no table entry is added, and a table
\* entry is dropped only as a repetition inside its own chunk, so every chunk
\* names the csv files it named before.
C25_OnlyReferenceListsChange ==
    \A r \in 1..Len(passes) :
        LET before == passes[r].start
            after == passes[r].again.chunks
        IN  /\ Len(after) = Len(before)
            /\ \A k \in 1..Len(before) :
                   /\ after[k].text = before[k].text
                   /\ after[k].headings = before[k].headings
                   /\ after[k].item_types = before[k].item_types
                   /\ after[k].page_numbers = before[k].page_numbers
                   /\ IsSubSeq(after[k].tables, before[k].tables)
                   /\ CsvFiles(after[k].tables) = CsvFiles(before[k].tables)

\* A run that dropped a repeated table inside a chunk, left a csv file that two
\* chunks name in both of them, and added a figure entry.
C25_Witness ==
    \E r \in 1..Len(passes) :
        LET before == passes[r].start
            after == passes[r].again.chunks
        IN  /\ Len(before) = 2
            /\ \E k \in 1..2 : Len(after[k].tables) < Len(before[k].tables)
            /\ CsvFiles(after[1].tables) \cap CsvFiles(after[2].tables) # {}
            /\ count_figures(after) > count_figures(before)
            /\ after = chunks


---------------------------------------------------------------------------
(* Properties of extract_pdf: no retries *)

\* The placements for which extraction was attempted: those not skipped as a
\* repeated xref of their page.
Attempts == {i \in DOMAIN img_log : img_log[i].result # "duplicate"}

\* C26: within one run nothing is retried: the recognition engine is invoked
\* at most once for a page, and the extraction of an embedded image (an xref
\* on a page) is attempted at most once, also when that attempt failed.
C26_NothingIsRetried ==
    /\ \A i, j \in DOMAIN ocr_log : ocr_log[i].page = ocr_log[j].page => i = j
    /\ \A i, j \in Attempts :
           (img_log[i].page = img_log[j].page /\ img_log[i].xref = img_log[j].xref)
               => i = j

\* A finished run in which recognition failed on a page and an image whose
\* extraction raised is placed a second time on its page.
C26_Witness ==
    /\ pc = "done"
    /\ \E i \in DOMAIN ocr_log : ~ocr_log[i].ok
    /\ \E i, j \in DOMAIN img_log :
           /\ i < j
           /\ img_log[i].page = img_log[j].page
           /\ img_log[i].xref = img_log[j].xref
           /\ img_log[i].result = "raised"
           /\ img_log[j].result = "duplicate"


---------------------------------------------------------------------------
(* Properties of the fallback pass inside postprocess_chunks *)

\* The entries the fallback pass of the r-th run appended to chunk k.
FallbackEntries(r, k) ==
    LET before == passes[r].crossed.chunks[k].figures
        after == passes[r].fallback.chunks[k].figures
    IN  {after[i] : i \in (Len(before) + 1)..Len(after)}

\* The number of figure entries, over all chunks, that reference ref.
TotalOccurrences(chs, ref) ==
    LET RECURSIVE upto(_)
        upto(k) == IF k = 0 THEN 0
                   ELSE Occurrences(chs[k].figures, ref) + upto(k - 1)
    IN  upto(Len(chs))

\* C27: inject_fallback_figures, run after dedup_cross_chunk, injects no
\* picture_ref that a chunk already holds and no picture_ref twice, so the
\* second dedup_cross_chunk of postprocess_chunks removes nothing and leaves
\* the chunks as the fallback pass returned them.
C27_SecondCrossDedupRemovesNothing ==
    \A r \in 1..Len(passes) :
        /\ \A k \in 1..Len(passes[r].fallback.chunks) :
               \A e \in FallbackEntries(r, k) :
                   /\ e.picture_ref \notin RefsOf(passes[r].crossed.chunks)
                   /\ TotalOccurrences(passes[r].fallback.chunks, e.picture_ref) = 1
        /\ passes[r].again.removed = 0
        /\ passes[r].again.chunks = passes[r].fallback.chunks

\* A run whose fallback pass injected one uncaptioned image and passed over
\* another that a chunk already held, so that the second dedup_cross_chunk ran.
C27_Witness ==
    \E r \in 1..Len(passes) :
        /\ passes[r].fallback.injected > 0
        /\ \E f \in images_dir :
               /\ f.meta.caption = <<>>
               /\ f.meta.picture_ref \in RefsOf(passes[r].crossed.chunks)


---------------------------------------------------------------------------
(* postprocess_chunks run twice *)

\* C28: postprocess_chunks is idempotent on the chunks: the chunk sequence
\* after a second run on the result of the first (every chunk, its figures and
\* tables entry by entry and in order) is the chunk sequence after the first
\* run, whatever the counters of the second run are.
C28_SecondRunKeepsChunks ==
    Len(passes) = 2 =>
        /\ passes[2].start = passes[1].again.chunks
        /\ passes[2].again.chunks = passes[1].again.chunks
        /\ chunks = passes[1].again.chunks

\* Two runs, the first of which changed figure and table lists and the second
\* of which reported an injection and a removal.
C28_Witness ==
    /\ Len(passes) = 2
    /\ passes[1].again.chunks # passes[1].start
    /\ stats[2].fuzzy_injected > 0
    /\ stats[2].cross_chunk_removed > 0
    /\ chunks = passes[2].again.chunks

=======================================================================
